---------------------------- MODULE Spec2Model ----------------------------
(***************************************************************************)
(* Precedent search engine of legal_precedents: the entity detectors of    *)
(* utils/pattern_detectors.py, the field scorers and the aggregate scorer  *)
(* of utils/scoring.py and the orchestrator of utils/precedent_search.py.  *)
(*                                                                         *)
(* A Python str is a sequence of characters.  A character is a one-element *)
(* token: the ASCII characters stand for themselves, a Hangul syllable is  *)
(* written by its romanisation ("dae" "beop" "won" is the three-character  *)
(* string 대법원).  A Python float score is an exact rational: the field    *)
(* scorers return whole points, the aggregate scorer returns units of      *)
(* 1/Scale point.                                                          *)
(*                                                                         *)
(* A local variable of the code that is read more than once is the         *)
(* parameter of a local operator, which is applied to the value assigned   *)
(* to the variable.                                                        *)
(***************************************************************************)
EXTENDS Integers, Sequences, FiniteSets, TLC

VARIABLES pc, fn, arg, ret, store, calls, workers

vars == <<pc, fn, arg, ret, store, calls, workers>>

-----------------------------------------------------------------------------
(* Characters and the character classes the regular expressions use.       *)

Digit == {"0", "1", "2", "3", "4", "5", "6", "7", "8", "9"}

\* [가-힣]: the syllables that occur in the alias tables, the citation
\* keywords (선고, 판결), the date unit words (년 월 일) and the case types.
Hangul ==
    {"dae", "beop", "won", "ji", "go", "seo", "ul", "bu", "san", "gu",
     "gwang", "ju", "jeon", "jung", "ang", "in", "cheon", "su", "chang",
     "ui", "jeong", "deung", "bang", "gong", "hang", "se", "gwan", "bon",
     "pyeong", "taek", "an", "seon", "pan", "gyeol", "nyeon", "wol", "il",
     "hap", "do", "du"}

Upper == {"X"}
Latin == {"x", "y", "z"} \cup Upper
Space == {" "}

\* str.lower() on one character
LowerChar(c) == IF c = "X" THEN "x" ELSE c

\* \w of Python's re on str: letters (Hangul included), digits, underscore
IsWord(c) == c \in Digit \cup Hangul \cup Latin \cup {"_"}

Lower(s) == [i \in 1..Len(s) |-> LowerChar(s[i])]

\* s[i] as a regular expression sees it: no character past the end
At(s, i) == IF i \in 1..Len(s) THEN s[i] ELSE "$"

\* the literal lit occurs in s at position i
MatchLit(s, i, lit) ==
    /\ i >= 1
    /\ i + Len(lit) - 1 <= Len(s)
    /\ \A k \in 1..Len(lit) : s[i + k - 1] = lit[k]

\* Python's  sub in s
Contains(sub, s) == \E i \in 1..(Len(s) - Len(sub) + 1) : MatchLit(s, i, sub)

\* a greedy run  [class]*  from position i: the position after the run
RunEnd(s, i, class) ==
    LET stops == {j \in i..Len(s) : s[j] \notin class}
    IN  IF stops = {} THEN Len(s) + 1
        ELSE CHOOSE j \in stops : \A k \in stops : j <= k

Slice(s, i, j) == SubSeq(s, i, j - 1)

SetMin(S) == CHOOSE x \in S : \A y \in S : x <= y
SetMax(S) == CHOOSE x \in S : \A y \in S : x >= y

\* Python's None
None == [none |-> TRUE]


-----------------------------------------------------------------------------
(* utils/pattern_detectors.py: the regular expressions.                    *)

\* (\d{4})([가-힣]+)(\d+) matched at position i: the positions where the
\* case type starts, where the serial starts and where the match ends.
\* The two runs are greedy; giving back a character of either run never
\* helps, so the match at i is unique when there is one.
CoreAt(s, i) ==
    LET serial(t, n) ==
            LET ends(e) ==
                    IF /\ \A k \in i..(i + 3) : At(s, k) \in Digit
                       /\ n > t
                       /\ e > n
                    THEN [type |-> t, number |-> n, end |-> e]
                    ELSE None
            IN  ends(RunEnd(s, n, Digit))
    IN  serial(i + 4, RunEnd(s, i + 4, Hangul))

\* the alternation (?:지법|고법|대법원), in its order
CourtSuffixes == << <<"ji", "beop">>, <<"go", "beop">>, <<"dae", "beop", "won">> >>

\* ([가-힣]+(?:지법|고법|대법원)) at position i followed by the core: the
\* position where the year starts.  [가-힣]+ is greedy and gives characters
\* back one at a time; the alternatives are tried in order.
CourtAt(s, i) ==
    LET fits(k, a) ==
            /\ MatchLit(s, k, CourtSuffixes[a])
            /\ CoreAt(s, k + Len(CourtSuffixes[a])) # None
        year(k) ==
            k + Len(CourtSuffixes[
                    SetMin({a \in 1..Len(CourtSuffixes) : fits(k, a)})])
        longest(ends) == IF ends = {} THEN 0 ELSE year(SetMax(ends))
    IN  longest({k \in (i + 1)..RunEnd(s, i, Hangul) :
                    \E a \in 1..Len(CourtSuffixes) : fits(k, a)})

\* CASE_NUMBER_PATTERN matched at position i: the optional court group is
\* tried first, the empty alternative second.  The position of the year,
\* or 0 when the pattern does not match at i.
CaseNumberAt(s, i) ==
    LET year(court) ==
            IF court # 0 THEN court
            ELSE IF CoreAt(s, i) # None THEN i
            ELSE 0
    IN  year(CourtAt(s, i))

\* detect_case_number: re.search returns the leftmost match
detect_case_number(query) ==
    LET groups(i, y, m) ==
            [court |-> Slice(query, i, y),
             year |-> Slice(query, y, m.type),
             type |-> Slice(query, m.type, m.number),
             number |-> Slice(query, m.number, m.end),
             full |-> Slice(query, i, y) \o Slice(query, y, m.type)
                      \o Slice(query, m.type, m.number)
                      \o Slice(query, m.number, m.end)]
        match(i, y) == groups(i, y, CoreAt(query, y))
        leftmost(at, i) == match(i, at[i])
        search(at) ==
            IF \A i \in DOMAIN at : at[i] = 0 THEN None
            ELSE leftmost(at, SetMin({i \in DOMAIN at : at[i] # 0}))
    IN  search([i \in 1..Len(query) |-> CaseNumberAt(query, i)])


\* (\d{1,2}) followed by the character c, from position i: the position of
\* c, or 0.  Two digits are tried first, then one.
OneOrTwoDigitsThen(s, i, c) ==
    IF At(s, i) \in Digit /\ At(s, i + 1) \in Digit /\ At(s, i + 2) = c
    THEN i + 2
    ELSE IF At(s, i) \in Digit /\ At(s, i + 1) = c THEN i + 1
    ELSE 0

\* str.zfill(2) of a string without a sign
zfill2(d) ==
    IF Len(d) = 0 THEN <<"0", "0">>
    ELSE IF Len(d) = 1 THEN <<"0">> \o d
    ELSE d

\* \[([가-힣]+)\s+ at position i: the court and the position after the
\* white space
BracketCourtAt(s, i) ==
    LET court(c2) ==
            LET space(y1) ==
                    IF At(s, i) = "[" /\ c2 > i + 1 /\ y1 > c2
                    THEN [court |-> Slice(s, i + 1, c2), end |-> y1]
                    ELSE None
            IN  space(RunEnd(s, c2, Space))
    IN  court(RunEnd(s, i + 1, Hangul))

\* (\d{4})\.\s*(\d{1,2})\.\s*(\d{1,2})\. at position y1: the date as
\* detect_precedent_number writes it and the position after the last dot
CitationDateAt(s, y1) ==
    LET month(m1) ==
            LET month_dot(m2) ==
                    LET day(d1) ==
                            LET day_dot(d2) ==
                                    IF /\ \A k \in y1..(y1 + 3) :
                                            At(s, k) \in Digit
                                       /\ At(s, y1 + 4) = "."
                                       /\ m2 # 0
                                       /\ d2 # 0
                                    THEN [date |->
                                              Slice(s, y1, y1 + 4) \o <<"-">>
                                              \o zfill2(Slice(s, m1, m2))
                                              \o <<"-">>
                                              \o zfill2(Slice(s, d1, d2)),
                                          end |-> d2 + 1]
                                    ELSE None
                            IN  day_dot(OneOrTwoDigitsThen(s, d1, "."))
                    IN  day(RunEnd(s, m2 + 1, Space))
            IN  month_dot(OneOrTwoDigitsThen(s, m1, "."))
    IN  month(RunEnd(s, y1 + 5, Space))

\* \s*선고\s+(\d{4}[가-힣]+\d+)\s*판결\] at position p: the case id and the
\* position after the bracket
CitationCaseIdAt(s, p) ==
    LET seongo(k1) ==
            LET case_id(id1) ==
                    LET pangyeol(id) ==
                            LET bracket(k2) ==
                                    IF /\ MatchLit(s, k1, <<"seon", "go">>)
                                       /\ id1 > k1 + 2
                                       /\ id # None
                                       /\ MatchLit(s, k2,
                                                   <<"pan", "gyeol", "]">>)
                                    THEN [case_id |-> Slice(s, id1, id.end),
                                          end |-> k2 + 3]
                                    ELSE None
                            IN  bracket(IF id = None THEN 0
                                        ELSE RunEnd(s, id.end, Space))
                    IN  pangyeol(CoreAt(s, id1))
            IN  case_id(RunEnd(s, k1 + 2, Space))
    IN  seongo(RunEnd(s, p, Space))

\* PRECEDENT_NUMBER_FULL_PATTERN matched at position i:
\*   \[([가-힣]+)\s+(\d{4})\.\s*(\d{1,2})\.\s*(\d{1,2})\.\s*선고\s+
\*   (\d{4}[가-힣]+\d+)\s*판결\]
\* Every run is greedy and followed by a character outside its class, so
\* the match at i is unique when there is one.
PrecedentFullAt(s, i) ==
    LET dated(c) ==
            IF c = None THEN None
            ELSE LET cited(d) ==
                         IF d = None THEN None
                         ELSE LET closed(e) ==
                                      IF e = None THEN None
                                      ELSE [court |-> c.court,
                                            date |-> d.date,
                                            case_id |-> e.case_id,
                                            full |-> Slice(s, i, e.end)]
                              IN  closed(CitationCaseIdAt(s, d.end))
                 IN  cited(CitationDateAt(s, c.end))
    IN  dated(BracketCourtAt(s, i))

\* detect_precedent_number: the bracketed form first, then the bare case id
detect_precedent_number(query) ==
    LET simple(i, m) ==
            [court |-> <<>>, date |-> <<>>,
             case_id |-> Slice(query, i, m.end),
             full |-> Slice(query, i, m.end)]
        leftmost(at, i) == simple(i, at[i])
        search_simple(at) ==
            IF \A i \in DOMAIN at : at[i] = None THEN None
            ELSE leftmost(at, SetMin({i \in DOMAIN at : at[i] # None}))
        search(at) ==
            IF \E i \in DOMAIN at : at[i] # None
            THEN at[SetMin({i \in DOMAIN at : at[i] # None})]
            ELSE search_simple([i \in 1..Len(query) |-> CoreAt(query, i)])
    IN  search([i \in 1..Len(query) |-> PrecedentFullAt(query, i)])

\* DATE_PATTERNS, in list order
DATE_PATTERNS == <<"hyphen", "dot", "space_dot", "korean", "compact">>

\* one pattern of DATE_PATTERNS matched at position i: the three groups
\* (the compact pattern has one group of eight digits) and the end
DateAt(s, i, pattern_type) ==
    LET year4 == \A k \in i..(i + 3) : At(s, k) \in Digit
        last(d1) == IF At(s, d1) \in Digit /\ At(s, d1 + 1) \in Digit
                    THEN d1 + 2
                    ELSE IF At(s, d1) \in Digit THEN d1 + 1 ELSE 0
        groups(m1, m2, d1) ==
            IF m2 # 0 /\ last(d1) # 0
            THEN [groups |-> <<Slice(s, i, i + 4), Slice(s, m1, m2),
                               Slice(s, d1, last(d1))>>,
                  end |-> last(d1)]
            ELSE None
    IN  IF ~year4 THEN None
        ELSE CASE pattern_type = "hyphen" ->
                    \* (\d{4})-(\d{1,2})-(\d{1,2})
                    LET m2 == OneOrTwoDigitsThen(s, i + 5, "-")
                    IN  IF At(s, i + 4) = "-" THEN groups(i + 5, m2, m2 + 1)
                        ELSE None
               [] pattern_type = "dot" ->
                    \* (\d{4})\.(\d{1,2})\.(\d{1,2})
                    LET m2 == OneOrTwoDigitsThen(s, i + 5, ".")
                    IN  IF At(s, i + 4) = "." THEN groups(i + 5, m2, m2 + 1)
                        ELSE None
               [] pattern_type = "space_dot" ->
                    \* (\d{4})\s+(\d{1,2})\.\s*(\d{1,2})
                    LET m1 == RunEnd(s, i + 4, Space)
                        m2 == OneOrTwoDigitsThen(s, m1, ".")
                    IN  IF m1 > i + 4
                        THEN groups(m1, m2, RunEnd(s, m2 + 1, Space))
                        ELSE None
               [] pattern_type = "korean" ->
                    \* (\d{4})년\s*(\d{1,2})월\s*(\d{1,2})일
                    LET m1 == RunEnd(s, i + 5, Space)
                        m2 == OneOrTwoDigitsThen(s, m1, "wol")
                        d1 == RunEnd(s, m2 + 1, Space)
                        d2 == OneOrTwoDigitsThen(s, d1, "il")
                    IN  IF At(s, i + 4) = "nyeon" /\ m2 # 0 /\ d2 # 0
                        THEN [groups |-> <<Slice(s, i, i + 4), Slice(s, m1, m2),
                                           Slice(s, d1, d2)>>,
                              end |-> d2 + 1]
                        ELSE None
               [] pattern_type = "compact" ->
                    \* (\d{8})
                    IF \A k \in (i + 4)..(i + 7) : At(s, k) \in Digit
                    THEN [groups |-> <<Slice(s, i, i + 8)>>, end |-> i + 8]
                    ELSE None

\* re.finditer: the non-overlapping matches of one pattern, left to right,
\* from position i on
RECURSIVE finditer(_, _, _)
finditer(s, i, pattern_type) ==
    LET from(m) ==
            IF m = None THEN finditer(s, i + 1, pattern_type)
            ELSE <<m>> \o finditer(s, m.end, pattern_type)
    IN  IF i > Len(s) THEN <<>>
        ELSE from(DateAt(s, i, pattern_type))

DigitValue(c) ==
    CASE c = "0" -> 0 [] c = "1" -> 1 [] c = "2" -> 2 [] c = "3" -> 3
      [] c = "4" -> 4 [] c = "5" -> 5 [] c = "6" -> 6 [] c = "7" -> 7
      [] c = "8" -> 8 [] c = "9" -> 9

\* int() of a string of digits
RECURSIVE int(_)
int(d) ==
    IF d = <<>> THEN 0
    ELSE 10 * int(SubSeq(d, 1, Len(d) - 1)) + DigitValue(d[Len(d)])

\* IsCalendarDate with every month taken to have 31 days
IsCalendarDateAnyMonth31(year, month, day) ==
    /\ year \in 1..9999
    /\ month \in 1..12
    /\ day \in 1..31

\* datetime(year, month, day) does not raise ValueError
IsCalendarDate(year, month, day) ==
    LET leap == (year % 4 = 0 /\ year % 100 # 0) \/ year % 400 = 0
        days == IF month \in {4, 6, 9, 11} THEN 30
                ELSE IF month = 2 THEN (IF leap THEN 29 ELSE 28)
                ELSE 31
    IN  /\ year \in 1..9999
        /\ month \in 1..12
        /\ day \in 1..days

\* normalize_date_match writing month and day as they were matched
NormalizeDateUnpadded(match, pattern_type) ==
    LET g == match.groups
        year == IF pattern_type = "compact" THEN SubSeq(g[1], 1, 4) ELSE g[1]
        month == IF pattern_type = "compact" THEN SubSeq(g[1], 5, 6) ELSE g[2]
        day == IF pattern_type = "compact" THEN SubSeq(g[1], 7, 8) ELSE g[3]
    IN  IF IsCalendarDate(int(year), int(month), int(day))
        THEN year \o <<"-">> \o month \o <<"-">> \o day
        ELSE <<>>

\* normalize_date_match; the empty string stands for None (the caller
\* tests the result for truth, and a normalized date is never empty)
normalize_date_match(match, pattern_type) ==
    LET g == match.groups
        year == IF pattern_type = "compact" THEN SubSeq(g[1], 1, 4) ELSE g[1]
        month == IF pattern_type = "compact" THEN SubSeq(g[1], 5, 6) ELSE g[2]
        day == IF pattern_type = "compact" THEN SubSeq(g[1], 7, 8) ELSE g[3]
    IN  IF IsCalendarDate(int(year), int(month), int(day))
        THEN year \o <<"-">> \o zfill2(month) \o <<"-">> \o zfill2(day)
        ELSE <<>>

InSeq(x, seq) == \E k \in 1..Len(seq) : seq[k] = x

\* the inner loop of detect_date: the matches of one pattern appended to
\* dates, duplicates and invalid candidates dropped
RECURSIVE AppendDates(_, _, _)
AppendDates(dates, matches, pattern_type) ==
    LET append(normalized) ==
            AppendDates(IF normalized # <<>> /\ ~InSeq(normalized, dates)
                        THEN Append(dates, normalized) ELSE dates,
                        Tail(matches), pattern_type)
    IN  IF matches = <<>> THEN dates
        ELSE append(normalize_date_match(Head(matches), pattern_type))

\* the outer loop of detect_date, from pattern p on
RECURSIVE DetectDateFrom(_, _, _)
DetectDateFrom(query, p, dates) ==
    IF p > Len(DATE_PATTERNS) THEN dates
    ELSE DetectDateFrom(query, p + 1,
             AppendDates(dates, finditer(query, 1, DATE_PATTERNS[p]),
                         DATE_PATTERNS[p]))

detect_date(query) == DetectDateFrom(query, 1, <<>>)

-----------------------------------------------------------------------------
(* The alias tables, in dict order.                                        *)

COURT_ALIASES ==
    << 
       \* 대법원: 대법원
       [name |-> <<"dae", "beop", "won">>,
        aliases |-> << <<"dae", "beop", "won">> >>],
       \* 서울고법: 서울고등법원, 서울고법
       [name |-> <<"seo", "ul", "go", "beop">>,
        aliases |-> << <<"seo", "ul", "go", "deung", "beop", "won">>,
                       <<"seo", "ul", "go", "beop">> >>],
       \* 서울고등법원: 서울고등법원, 서울고법
       [name |-> <<"seo", "ul", "go", "deung", "beop", "won">>,
        aliases |-> << <<"seo", "ul", "go", "deung", "beop", "won">>,
                       <<"seo", "ul", "go", "beop">> >>],
       \* 부산고법: 부산고등법원, 부산고법
       [name |-> <<"bu", "san", "go", "beop">>,
        aliases |-> << <<"bu", "san", "go", "deung", "beop", "won">>,
                       <<"bu", "san", "go", "beop">> >>],
       \* 부산고등법원: 부산고등법원, 부산고법
       [name |-> <<"bu", "san", "go", "deung", "beop", "won">>,
        aliases |-> << <<"bu", "san", "go", "deung", "beop", "won">>,
                       <<"bu", "san", "go", "beop">> >>],
       \* 대구고법: 대구고등법원, 대구고법
       [name |-> <<"dae", "gu", "go", "beop">>,
        aliases |-> << <<"dae", "gu", "go", "deung", "beop", "won">>,
                       <<"dae", "gu", "go", "beop">> >>],
       \* 대구고등법원: 대구고등법원, 대구고법
       [name |-> <<"dae", "gu", "go", "deung", "beop", "won">>,
        aliases |-> << <<"dae", "gu", "go", "deung", "beop", "won">>,
                       <<"dae", "gu", "go", "beop">> >>],
       \* 광주고법: 광주고등법원, 광주고법
       [name |-> <<"gwang", "ju", "go", "beop">>,
        aliases |-> << <<"gwang", "ju", "go", "deung", "beop", "won">>,
                       <<"gwang", "ju", "go", "beop">> >>],
       \* 광주고등법원: 광주고등법원, 광주고법
       [name |-> <<"gwang", "ju", "go", "deung", "beop", "won">>,
        aliases |-> << <<"gwang", "ju", "go", "deung", "beop", "won">>,
                       <<"gwang", "ju", "go", "beop">> >>],
       \* 대전고법: 대전고등법원, 대전고법
       [name |-> <<"dae", "jeon", "go", "beop">>,
        aliases |-> << <<"dae", "jeon", "go", "deung", "beop", "won">>,
                       <<"dae", "jeon", "go", "beop">> >>],
       \* 대전고등법원: 대전고등법원, 대전고법
       [name |-> <<"dae", "jeon", "go", "deung", "beop", "won">>,
        aliases |-> << <<"dae", "jeon", "go", "deung", "beop", "won">>,
                       <<"dae", "jeon", "go", "beop">> >>],
       \* 서울중앙지법: 서울중앙지방법원, 서울중앙지법
       [name |-> <<"seo", "ul", "jung", "ang", "ji", "beop">>,
        aliases |-> << <<"seo", "ul", "jung", "ang", "ji", "bang", "beop", "won">>,
                       <<"seo", "ul", "jung", "ang", "ji", "beop">> >>],
       \* 서울지법: 서울중앙지방법원, 서울지법
       [name |-> <<"seo", "ul", "ji", "beop">>,
        aliases |-> << <<"seo", "ul", "jung", "ang", "ji", "bang", "beop", "won">>,
                       <<"seo", "ul", "ji", "beop">> >>],
       \* 인천지법: 인천지방법원, 인천지법
       [name |-> <<"in", "cheon", "ji", "beop">>,
        aliases |-> << <<"in", "cheon", "ji", "bang", "beop", "won">>,
                       <<"in", "cheon", "ji", "beop">> >>],
       \* 인천지방법원: 인천지방법원, 인천지법
       [name |-> <<"in", "cheon", "ji", "bang", "beop", "won">>,
        aliases |-> << <<"in", "cheon", "ji", "bang", "beop", "won">>,
                       <<"in", "cheon", "ji", "beop">> >>],
       \* 수원지법: 수원지방법원, 수원지법
       [name |-> <<"su", "won", "ji", "beop">>,
        aliases |-> << <<"su", "won", "ji", "bang", "beop", "won">>,
                       <<"su", "won", "ji", "beop">> >>],
       \* 수원지방법원: 수원지방법원, 수원지법
       [name |-> <<"su", "won", "ji", "bang", "beop", "won">>,
        aliases |-> << <<"su", "won", "ji", "bang", "beop", "won">>,
                       <<"su", "won", "ji", "beop">> >>],
       \* 부산지법: 부산지방법원, 부산지법
       [name |-> <<"bu", "san", "ji", "beop">>,
        aliases |-> << <<"bu", "san", "ji", "bang", "beop", "won">>,
                       <<"bu", "san", "ji", "beop">> >>],
       \* 부산지방법원: 부산지방법원, 부산지법
       [name |-> <<"bu", "san", "ji", "bang", "beop", "won">>,
        aliases |-> << <<"bu", "san", "ji", "bang", "beop", "won">>,
                       <<"bu", "san", "ji", "beop">> >>],
       \* 대구지법: 대구지방법원, 대구지법
       [name |-> <<"dae", "gu", "ji", "beop">>,
        aliases |-> << <<"dae", "gu", "ji", "bang", "beop", "won">>,
                       <<"dae", "gu", "ji", "beop">> >>],
       \* 대구지방법원: 대구지방법원, 대구지법
       [name |-> <<"dae", "gu", "ji", "bang", "beop", "won">>,
        aliases |-> << <<"dae", "gu", "ji", "bang", "beop", "won">>,
                       <<"dae", "gu", "ji", "beop">> >>],
       \* 대전지법: 대전지방법원, 대전지법
       [name |-> <<"dae", "jeon", "ji", "beop">>,
        aliases |-> << <<"dae", "jeon", "ji", "bang", "beop", "won">>,
                       <<"dae", "jeon", "ji", "beop">> >>],
       \* 대전지방법원: 대전지방법원, 대전지법
       [name |-> <<"dae", "jeon", "ji", "bang", "beop", "won">>,
        aliases |-> << <<"dae", "jeon", "ji", "bang", "beop", "won">>,
                       <<"dae", "jeon", "ji", "beop">> >>],
       \* 광주지법: 광주지방법원, 광주지법
       [name |-> <<"gwang", "ju", "ji", "beop">>,
        aliases |-> << <<"gwang", "ju", "ji", "bang", "beop", "won">>,
                       <<"gwang", "ju", "ji", "beop">> >>],
       \* 광주지방법원: 광주지방법원, 광주지법
       [name |-> <<"gwang", "ju", "ji", "bang", "beop", "won">>,
        aliases |-> << <<"gwang", "ju", "ji", "bang", "beop", "won">>,
                       <<"gwang", "ju", "ji", "beop">> >>],
       \* 울산지법: 울산지방법원, 울산지법
       [name |-> <<"ul", "san", "ji", "beop">>,
        aliases |-> << <<"ul", "san", "ji", "bang", "beop", "won">>,
                       <<"ul", "san", "ji", "beop">> >>],
       \* 울산지방법원: 울산지방법원, 울산지법
       [name |-> <<"ul", "san", "ji", "bang", "beop", "won">>,
        aliases |-> << <<"ul", "san", "ji", "bang", "beop", "won">>,
                       <<"ul", "san", "ji", "beop">> >>],
       \* 창원지법: 창원지방법원, 창원지법
       [name |-> <<"chang", "won", "ji", "beop">>,
        aliases |-> << <<"chang", "won", "ji", "bang", "beop", "won">>,
                       <<"chang", "won", "ji", "beop">> >>],
       \* 창원지방법원: 창원지방법원, 창원지법
       [name |-> <<"chang", "won", "ji", "bang", "beop", "won">>,
        aliases |-> << <<"chang", "won", "ji", "bang", "beop", "won">>,
                       <<"chang", "won", "ji", "beop">> >>],
       \* 의정부지법: 의정부지방법원, 의정부지법
       [name |-> <<"ui", "jeong", "bu", "ji", "beop">>,
        aliases |-> << <<"ui", "jeong", "bu", "ji", "bang", "beop", "won">>,
                       <<"ui", "jeong", "bu", "ji", "beop">> >>],
       \* 의정부지방법원: 의정부지방법원, 의정부지법
       [name |-> <<"ui", "jeong", "bu", "ji", "bang", "beop", "won">>,
        aliases |-> << <<"ui", "jeong", "bu", "ji", "bang", "beop", "won">>,
                       <<"ui", "jeong", "bu", "ji", "beop">> >>]
    >>

CUSTOMS_ALIASES ==
    << 
       \* 인천공항세관: 인천공항세관, 인천공항
       [name |-> <<"in", "cheon", "gong", "hang", "se", "gwan">>,
        aliases |-> << <<"in", "cheon", "gong", "hang", "se", "gwan">>,
                       <<"in", "cheon", "gong", "hang">> >>],
       \* 인천세관: 인천세관
       [name |-> <<"in", "cheon", "se", "gwan">>,
        aliases |-> << <<"in", "cheon", "se", "gwan">> >>],
       \* 서울세관: 서울세관, 서울본부세관
       [name |-> <<"seo", "ul", "se", "gwan">>,
        aliases |-> << <<"seo", "ul", "se", "gwan">>,
                       <<"seo", "ul", "bon", "bu", "se", "gwan">> >>],
       \* 부산세관: 부산세관, 부산본부세관
       [name |-> <<"bu", "san", "se", "gwan">>,
        aliases |-> << <<"bu", "san", "se", "gwan">>,
                       <<"bu", "san", "bon", "bu", "se", "gwan">> >>],
       \* 대전세관: 대전세관
       [name |-> <<"dae", "jeon", "se", "gwan">>,
        aliases |-> << <<"dae", "jeon", "se", "gwan">> >>],
       \* 대구세관: 대구세관
       [name |-> <<"dae", "gu", "se", "gwan">>,
        aliases |-> << <<"dae", "gu", "se", "gwan">> >>],
       \* 광주세관: 광주세관
       [name |-> <<"gwang", "ju", "se", "gwan">>,
        aliases |-> << <<"gwang", "ju", "se", "gwan">> >>],
       \* 평택세관: 평택세관
       [name |-> <<"pyeong", "taek", "se", "gwan">>,
        aliases |-> << <<"pyeong", "taek", "se", "gwan">> >>],
       \* 천안세관: 천안세관
       [name |-> <<"cheon", "an", "se", "gwan">>,
        aliases |-> << <<"cheon", "an", "se", "gwan">> >>]
    >>

\* the (standard_name, alias) pairs of a table in the order the two nested
\* for loops visit them
RECURSIVE AliasPairs(_)
AliasPairs(table) ==
    IF table = <<>> THEN <<>>
    ELSE [k \in 1..Len(Head(table).aliases) |->
             [standard_name |-> Head(table).name,
              alias |-> Head(table).aliases[k]]]
         \o AliasPairs(Tail(table))

COURT_PAIRS == AliasPairs(COURT_ALIASES)
CUSTOMS_PAIRS == AliasPairs(CUSTOMS_ALIASES)

\* detect_court and detect_customs with both tests made in one pass over
\* the table
DetectAliasOnePass(query, pairs) ==
    LET query_lower == Lower(query)
        hits == {k \in 1..Len(pairs) :
                    \/ Contains(pairs[k].alias, query)
                    \/ Contains(pairs[k].alias, query_lower)
                    \/ Contains(query_lower, pairs[k].alias)}
    IN  IF hits = {} THEN None
        ELSE LET p == pairs[SetMin(hits)]
             IN  IF Contains(p.alias, query)
                 THEN [input |-> p.alias, normalized_name |-> p.standard_name,
                       is_alias |-> p.alias # p.standard_name]
                 ELSE [input |-> query, normalized_name |-> p.standard_name,
                       is_alias |-> TRUE]

\* the two passes of detect_court and detect_customs over a table
DetectAlias(query, pairs) ==
    LET query_lower == Lower(query)
        exact == {k \in 1..Len(pairs) : Contains(pairs[k].alias, query)}
        loose == {k \in 1..Len(pairs) :
                     \/ Contains(pairs[k].alias, query_lower)
                     \/ Contains(query_lower, pairs[k].alias)}
    IN  IF exact # {}
        THEN LET p == pairs[SetMin(exact)]
             IN  [input |-> p.alias, normalized_name |-> p.standard_name,
                  is_alias |-> p.alias # p.standard_name]
        ELSE IF loose # {}
        THEN [input |-> query,
              normalized_name |-> pairs[SetMin(loose)].standard_name,
              is_alias |-> TRUE]
        ELSE None

detect_court(query) == DetectAlias(query, COURT_PAIRS)

detect_customs(query) == DetectAlias(query, CUSTOMS_PAIRS)

detect_all_patterns(query) ==
    [case_number |-> detect_case_number(query),
     precedent_number |-> detect_precedent_number(query),
     dates |-> detect_date(query),
     court |-> detect_court(query),
     customs |-> detect_customs(query)]


-----------------------------------------------------------------------------
(* utils/scoring.py: the field scorers.  A score is in whole points.       *)

RECURSIVE KeepWord(_)
KeepWord(s) ==
    IF s = <<>> THEN <<>>
    ELSE IF IsWord(Head(s)) THEN <<Head(s)>> \o KeepWord(Tail(s))
    ELSE KeepWord(Tail(s))

\* normalize_text: re.sub(r'[^\w가-힣]', '', text).lower()
normalize_text(text) == IF text = <<>> THEN <<>> ELSE Lower(KeepWord(text))

\* match_case_number_score with the exact test made on the raw query
\* instead of the detected case number
MatchCaseExactOnRawQuery(query, target) ==
    LET score(query_info, target_info) ==
            LET query_core ==
                    query_info.year \o query_info.type \o query_info.number
                target_core ==
                    target_info.year \o target_info.type \o target_info.number
            IN  IF query_info = None \/ target_info = None THEN 0
                ELSE IF query = target_info.full THEN 100
                ELSE IF query_core = target_core
                THEN (IF query_info.court # <<>> THEN 90 ELSE 85)
                ELSE IF \/ Contains(query_core, target_core)
                        \/ Contains(target_core, query_core)
                THEN 70
                ELSE IF query_info.number = target_info.number THEN 50
                ELSE 0
    IN  score(detect_case_number(query), detect_case_number(target))

\* match_case_number_score with the court of the target deciding between
\* 90 and 85
MatchCaseByTargetCourt(query, target) ==
    LET score(query_info, target_info) ==
            LET query_core ==
                    query_info.year \o query_info.type \o query_info.number
                target_core ==
                    target_info.year \o target_info.type \o target_info.number
            IN  IF query_info = None \/ target_info = None THEN 0
                ELSE IF query_info.full = target_info.full THEN 100
                ELSE IF query_core = target_core
                THEN (IF target_info.court # <<>> THEN 90 ELSE 85)
                ELSE IF \/ Contains(query_core, target_core)
                        \/ Contains(target_core, query_core)
                THEN 70
                ELSE IF query_info.number = target_info.number THEN 50
                ELSE 0
    IN  score(detect_case_number(query), detect_case_number(target))

\* match_case_number_score with the substring test made in one direction
\* only
MatchCaseSubstringOneWay(query, target) ==
    LET score(query_info, target_info) ==
            LET query_core ==
                    query_info.year \o query_info.type \o query_info.number
                target_core ==
                    target_info.year \o target_info.type \o target_info.number
            IN  IF query_info = None \/ target_info = None THEN 0
                ELSE IF query_info.full = target_info.full THEN 100
                ELSE IF query_core = target_core
                THEN (IF query_info.court # <<>> THEN 90 ELSE 85)
                ELSE IF Contains(query_core, target_core) THEN 70
                ELSE IF query_info.number = target_info.number THEN 50
                ELSE 0
    IN  score(detect_case_number(query), detect_case_number(target))

match_case_number_score(query, target) ==
    LET score(query_info, target_info) ==
            LET query_core ==
                    query_info.year \o query_info.type \o query_info.number
                target_core ==
                    target_info.year \o target_info.type \o target_info.number
            IN  IF query_info = None \/ target_info = None THEN 0
                ELSE IF query_info.full = target_info.full THEN 100
                ELSE IF query_core = target_core
                THEN (IF query_info.court # <<>> THEN 90 ELSE 85)
                ELSE IF \/ Contains(query_core, target_core)
                        \/ Contains(target_core, query_core)
                THEN 70
                ELSE IF query_info.number = target_info.number THEN 50
                ELSE 0
    IN  score(detect_case_number(query), detect_case_number(target))

\* re.search(r'[가-힣]+', case_id).group(0): the first run of Hangul
\* characters; the empty string stands for no match (a match is never empty)
FirstHangulRun(s) ==
    LET starts == {i \in 1..Len(s) : s[i] \in Hangul}
    IN  IF starts = {} THEN <<>>
        ELSE Slice(s, SetMin(starts), RunEnd(s, SetMin(starts), Hangul))

\* match_precedent_number_score with the exact test made on the detected
\* full strings instead of the normalized arguments
MatchPrecedentExactOnFull(query, target) ==
    LET score(query_info, target_info) ==
            LET query_year == SubSeq(query_info.case_id, 1, 4)
                target_year == SubSeq(target_info.case_id, 1, 4)
                same_type(query_type, target_type) ==
                    /\ query_type # <<>>
                    /\ target_type # <<>>
                    /\ query_type = target_type
            IN  IF query_info = None \/ target_info = None THEN 0
                ELSE IF query_info.full = target_info.full THEN 100
                ELSE IF query_info.case_id = target_info.case_id THEN 90
                ELSE IF /\ query_year = target_year
                        /\ same_type(FirstHangulRun(query_info.case_id),
                                     FirstHangulRun(target_info.case_id))
                THEN 60
                ELSE 0
    IN  score(detect_precedent_number(query), detect_precedent_number(target))

\* match_precedent_number_score with the court and case id test made
\* before the case id test
MatchPrecedentCourtFirst(query, target) ==
    LET score(query_info, target_info) ==
            LET query_year == SubSeq(query_info.case_id, 1, 4)
                target_year == SubSeq(target_info.case_id, 1, 4)
                same_type(query_type, target_type) ==
                    /\ query_type # <<>>
                    /\ target_type # <<>>
                    /\ query_type = target_type
            IN  IF query_info = None \/ target_info = None THEN 0
                ELSE IF normalize_text(query) = normalize_text(target) THEN 100
                ELSE IF /\ query_info.court # <<>>
                        /\ target_info.court # <<>>
                        /\ query_info.court = target_info.court
                        /\ query_info.case_id = target_info.case_id
                THEN 85
                ELSE IF query_info.case_id = target_info.case_id THEN 90
                ELSE IF /\ query_year = target_year
                        /\ same_type(FirstHangulRun(query_info.case_id),
                                     FirstHangulRun(target_info.case_id))
                THEN 60
                ELSE 0
    IN  score(detect_precedent_number(query), detect_precedent_number(target))

match_precedent_number_score(query, target) ==
    LET score(query_info, target_info) ==
            LET query_year == SubSeq(query_info.case_id, 1, 4)
                target_year == SubSeq(target_info.case_id, 1, 4)
                same_type(query_type, target_type) ==
                    /\ query_type # <<>>
                    /\ target_type # <<>>
                    /\ query_type = target_type
            IN  IF query_info = None \/ target_info = None THEN 0
                ELSE IF normalize_text(query) = normalize_text(target) THEN 100
                ELSE IF query_info.case_id = target_info.case_id THEN 90
                ELSE IF /\ query_info.court # <<>>
                        /\ target_info.court # <<>>
                        /\ query_info.court = target_info.court
                        /\ query_info.case_id = target_info.case_id
                THEN 85
                ELSE IF /\ query_year = target_year
                        /\ same_type(FirstHangulRun(query_info.case_id),
                                     FirstHangulRun(target_info.case_id))
                THEN 60
                ELSE 0
    IN  score(detect_precedent_number(query), detect_precedent_number(target))

\* str.split(sep) for a one-character separator
RECURSIVE split(_, _)
split(s, sep) ==
    LET seps == {i \in 1..Len(s) : s[i] = sep}
    IN  IF seps = {} THEN <<s>>
        ELSE <<SubSeq(s, 1, SetMin(seps) - 1)>>
             \o split(SubSeq(s, SetMin(seps) + 1, Len(s)), sep)

\* match_date_score splitting the target at hyphens only
MatchDateHyphenOnly(query_date, target_date) ==
    LET score(query_parts, target_parts) ==
            IF query_date = <<>> \/ target_date = <<>> THEN 0
            ELSE IF normalize_text(query_date) = normalize_text(target_date)
            THEN 100
            ELSE IF query_parts[1] = target_parts[1]
            THEN (IF /\ Len(query_parts) >= 2
                     /\ Len(target_parts) >= 2
                     /\ zfill2(query_parts[2]) = zfill2(target_parts[2])
                  THEN 70 ELSE 40)
            ELSE 0
    IN  score(split(query_date, "-"), split(target_date, "-"))

match_date_score(query_date, target_date) ==
    LET score(query_parts, target_parts) ==
            IF query_date = <<>> \/ target_date = <<>> THEN 0
            ELSE IF normalize_text(query_date) = normalize_text(target_date)
            THEN 100
            ELSE IF query_parts[1] = target_parts[1]
            THEN (IF /\ Len(query_parts) >= 2
                     /\ Len(target_parts) >= 2
                     /\ zfill2(query_parts[2]) = zfill2(target_parts[2])
                  THEN 70 ELSE 40)
            ELSE 0
    IN  score(split(query_date, "-"),
              split(target_date,
                    IF InSeq("-", target_date) THEN "-" ELSE "."))

\* the common body of match_court_score and match_customs_score
MatchAliasScore(query, target, query_info, target_info) ==
    IF query = <<>> \/ target = <<>> THEN 0
    ELSE IF query_info = None \/ target_info = None
    THEN (IF normalize_text(query) = normalize_text(target) THEN 100
          ELSE IF Contains(normalize_text(query), normalize_text(target)) THEN 70
          ELSE 0)
    ELSE IF query_info.normalized_name = target_info.normalized_name
    THEN (IF ~query_info.is_alias /\ ~target_info.is_alias THEN 100 ELSE 95)
    ELSE IF \/ Contains(query_info.normalized_name, target_info.normalized_name)
            \/ Contains(target_info.normalized_name, query_info.normalized_name)
    THEN 70
    ELSE 0

match_court_score(query, target) ==
    MatchAliasScore(query, target, detect_court(query), detect_court(target))

match_customs_score(query, target) ==
    MatchAliasScore(query, target, detect_customs(query), detect_customs(target))


-----------------------------------------------------------------------------
(* utils/scoring.py: the aggregate scorer.                                 *)
(*                                                                         *)
(* A record of either collection is a dict: a function from the keys it    *)
(* holds to strings.  The keys are romanised:                              *)
(*   sageonbeonho 사건번호, seongoilja_jonggyeoril 선고일자\n(종결일자),    *)
(*   cheobuncheong 처분청, pallyebeonho 판례번호, seongoilja 선고일자,      *)
(*   beobwonmyeong 법원명.                                                 *)

\* one point of score, in the unit of the aggregate score: a multiple of
\* every sum of weights a record can reach (2, 4, 6, 8, 10 tenths), so the
\* float division of calculate_precedent_score is exact
Scale == 120

\* the weights 0.6 and 0.2, in tenths
IdWeight == 6
DateWeight == 2
CourtWeight == 2
CustomsWeight == 2

\* the date block of both functions: whether it runs, and max_date_score
RECURSIVE MaxDateScore(_, _, _)
MaxDateScore(detected_dates, target_date, max_date_score) ==
    LET max(score) ==
            MaxDateScore(Tail(detected_dates), target_date,
                         IF score > max_date_score THEN score
                         ELSE max_date_score)
    IN  IF detected_dates = <<>> THEN max_date_score
        ELSE max(match_date_score(Head(detected_dates), target_date))

DateField(source) ==
    IF source = "kcs" THEN "seongoilja_jonggyeoril" ELSE "seongoilja"

DateScore(query, precedent_data, source) ==
    LET score(detected_dates) ==
            IF /\ detected_dates # <<>>
               /\ DateField(source) \in DOMAIN precedent_data
            THEN MaxDateScore(detected_dates,
                              precedent_data[DateField(source)], 0)
            ELSE 0
    IN  score(detect_date(query))

\* IdScore without the tests of source: the case number when the record has
\* one, else the precedent number
IdScoreAnySource(query, precedent_data, source) ==
    IF "sageonbeonho" \in DOMAIN precedent_data
    THEN match_case_number_score(query, precedent_data["sageonbeonho"])
    ELSE IF "pallyebeonho" \in DOMAIN precedent_data
    THEN match_precedent_number_score(query, precedent_data["pallyebeonho"])
    ELSE 0

\* the identifier block: the case number of a KCS record, the precedent
\* number of a MOLEG record
IdScore(query, precedent_data, source) ==
    IF source = "kcs" /\ "sageonbeonho" \in DOMAIN precedent_data
    THEN match_case_number_score(query, precedent_data["sageonbeonho"])
    ELSE IF source = "moleg" /\ "pallyebeonho" \in DOMAIN precedent_data
    THEN match_precedent_number_score(query, precedent_data["pallyebeonho"])
    ELSE 0

\* CourtScore without the test that the query yields a court detection
CourtScoreUnguarded(query, precedent_data, source) ==
    IF source = "moleg" /\ "beobwonmyeong" \in DOMAIN precedent_data
    THEN match_court_score(query, precedent_data["beobwonmyeong"])
    ELSE 0

CourtScore(query, precedent_data, source) ==
    IF /\ source = "moleg"
       /\ "beobwonmyeong" \in DOMAIN precedent_data
       /\ detect_court(query) # None
    THEN match_court_score(query, precedent_data["beobwonmyeong"])
    ELSE 0

CustomsScore(query, precedent_data, source) ==
    IF /\ source = "kcs"
       /\ "cheobuncheong" \in DOMAIN precedent_data
       /\ detect_customs(query) # None
    THEN match_customs_score(query, precedent_data["cheobuncheong"])
    ELSE 0

\* field_scores giving up on a record without the identifier of its source
FieldScoresIdRequired(query, precedent_data, source) ==
    LET map(id, date, court, customs) ==
            (IF id > 0
             THEN <<[name |-> IF source = "kcs" THEN "case_number"
                              ELSE "precedent_number",
                     score |-> id, weight |-> IdWeight]>>
             ELSE <<>>)
            \o (IF date > 0
                THEN <<[name |-> "date", score |-> date,
                        weight |-> DateWeight]>>
                ELSE <<>>)
            \o (IF court > 0
                THEN <<[name |-> "court", score |-> court,
                        weight |-> CourtWeight]>>
                ELSE <<>>)
            \o (IF customs > 0
                THEN <<[name |-> "customs", score |-> customs,
                        weight |-> CustomsWeight]>>
                ELSE <<>>)
    IN  IF (IF source = "kcs" THEN "sageonbeonho" ELSE "pallyebeonho")
               \notin DOMAIN precedent_data
        THEN <<>>
        ELSE map(IdScore(query, precedent_data, source),
                 DateScore(query, precedent_data, source),
                 CourtScore(query, precedent_data, source),
                 CustomsScore(query, precedent_data, source))

\* field_scores of calculate_precedent_score, in insertion order
field_scores(query, precedent_data, source) ==
    LET map(id, date, court, customs) ==
            (IF id > 0
             THEN <<[name |-> IF source = "kcs" THEN "case_number"
                              ELSE "precedent_number",
                     score |-> id, weight |-> IdWeight]>>
             ELSE <<>>)
            \o (IF date > 0
                THEN <<[name |-> "date", score |-> date,
                        weight |-> DateWeight]>>
                ELSE <<>>)
            \o (IF court > 0
                THEN <<[name |-> "court", score |-> court,
                        weight |-> CourtWeight]>>
                ELSE <<>>)
            \o (IF customs > 0
                THEN <<[name |-> "customs", score |-> customs,
                        weight |-> CustomsWeight]>>
                ELSE <<>>)
    IN  map(IdScore(query, precedent_data, source),
            DateScore(query, precedent_data, source),
            CourtScore(query, precedent_data, source),
            CustomsScore(query, precedent_data, source))

\* the accumulation loop: total_weighted_score and total_weight
RECURSIVE Totals(_)
Totals(fields) ==
    IF fields = <<>>
    THEN [total_weighted_score |-> 0, total_weight |-> 0]
    ELSE LET t == Totals(SubSeq(fields, 1, Len(fields) - 1))
             f == fields[Len(fields)]
         IN  [total_weighted_score |->
                  t.total_weighted_score + f.score * f.weight,
              total_weight |-> t.total_weight + f.weight]

\* multi_field_bonus with the bonuses of two and of three fields exchanged
MultiFieldBonusExchanged(matched_fields_count) ==
    IF matched_fields_count = 2 THEN 10
    ELSE IF matched_fields_count >= 3 THEN 5
    ELSE 0

multi_field_bonus(matched_fields_count) ==
    IF matched_fields_count = 2 THEN 5
    ELSE IF matched_fields_count >= 3 THEN 10
    ELSE 0

\* FinalScore dividing by the sum of all the weights of a source (1.0)
\* instead of the weights of the contributing fields
FinalScoreAllWeights(fields) ==
    LET final(t) ==
            LET base_score == (t.total_weighted_score * Scale)
                                  \div (IdWeight + DateWeight + CourtWeight)
                final_score ==
                    base_score + multi_field_bonus(Len(fields)) * Scale
            IN  IF fields = <<>> THEN 0
                ELSE IF final_score < 100 * Scale THEN final_score
                ELSE 100 * Scale
    IN  final(Totals(fields))

\* the part of calculate_precedent_score after field_scores is built;
\* the result is in units of 1/Scale point
FinalScore(fields) ==
    LET final(t) ==
            LET base_score ==
                    IF t.total_weight > 0
                    THEN (t.total_weighted_score * Scale) \div t.total_weight
                    ELSE 0
                final_score ==
                    base_score + multi_field_bonus(Len(fields)) * Scale
            IN  IF fields = <<>> THEN 0
                ELSE IF final_score < 100 * Scale THEN final_score
                ELSE 100 * Scale
    IN  final(Totals(fields))

calculate_precedent_score(query, precedent_data, source) ==
    FinalScore(field_scores(query, precedent_data, source))

\* get_matched_fields without the test that the query yields a court
\* detection
MatchedFieldsCourtUnguarded(query, precedent_data, source) ==
    LET dict(id, date, court, customs) ==
            [l \in (IF id > 0
                    THEN {IF source = "kcs" THEN "sageonbeonho"
                          ELSE "pallyebeonho"}
                    ELSE {})
                   \cup (IF date > 0 THEN {"seongoilja"} ELSE {})
                   \cup (IF court > 0 THEN {"beobwonmyeong"} ELSE {})
                   \cup (IF customs > 0 THEN {"cheobuncheong"} ELSE {}) |->
                CASE l \in {"sageonbeonho", "pallyebeonho"} -> id
                  [] l = "seongoilja" -> date
                  [] l = "beobwonmyeong" -> court
                  [] l = "cheobuncheong" -> customs]
    IN  dict(IdScore(query, precedent_data, source),
             DateScore(query, precedent_data, source),
             CourtScoreUnguarded(query, precedent_data, source),
             CustomsScore(query, precedent_data, source))

\* get_matched_fields: a dict from the label of each matched field to its
\* score
get_matched_fields(query, precedent_data, source) ==
    LET dict(id, date, court, customs) ==
            [l \in (IF id > 0
                    THEN {IF source = "kcs" THEN "sageonbeonho"
                          ELSE "pallyebeonho"}
                    ELSE {})
                   \cup (IF date > 0 THEN {"seongoilja"} ELSE {})
                   \cup (IF court > 0 THEN {"beobwonmyeong"} ELSE {})
                   \cup (IF customs > 0 THEN {"cheobuncheong"} ELSE {}) |->
                CASE l \in {"sageonbeonho", "pallyebeonho"} -> id
                  [] l = "seongoilja" -> date
                  [] l = "beobwonmyeong" -> court
                  [] l = "cheobuncheong" -> customs]
    IN  dict(IdScore(query, precedent_data, source),
             DateScore(query, precedent_data, source),
             CourtScore(query, precedent_data, source),
             CustomsScore(query, precedent_data, source))

-----------------------------------------------------------------------------
(* The inputs of the model: the queries and the records of the integration *)
(* tests, and queries and records whose serial number has eight digits.    *)

\* 2023구합208027
QueryBareCase ==
    <<"2", "0", "2", "3", "gu", "hap", "2", "0", "8", "0", "2", "7">>

\* 2023도1907
QueryBareCaseId ==
    <<"2", "0", "2", "3", "do", "1", "9", "0", "7">>

\* 2024-12-19
QueryDate ==
    <<"2", "0", "2", "4", "-", "1", "2", "-", "1", "9">>

\* 대법원
QueryCourt ==
    <<"dae", "beop", "won">>

\* xyz
QueryIrrelevant ==
    <<"x", "y", "z">>

\* -
QueryPunctuation ==
    <<"-">>

\* 2023구합20240101
QueryLongSerialCase ==
    <<"2", "0", "2", "3", "gu", "hap", "2", "0", "2", "4", "0", "1", "0",
      "1">>

\* 2023도20250301
QueryLongSerialCaseId ==
    <<"2", "0", "2", "3", "do", "2", "0", "2", "5", "0", "3", "0", "1">>

\* 대법원 2023도1907 2025-02-13
QueryMultiple ==
    <<"dae", "beop", "won", " ", "2", "0", "2", "3", "do", "1", "9", "0",
      "7", " ", "2", "0", "2", "5", "-", "0", "2", "-", "1", "3">>

\* 인천공항
QueryCustoms ==
    <<"in", "cheon", "gong", "hang">>

\* 대전지법2023구합208027
CaseDaejeon ==
    <<"dae", "jeon", "ji", "beop", "2", "0", "2", "3", "gu", "hap", "2",
      "0", "8", "0", "2", "7">>

\* 인천지법2023구합58668
CaseIncheon ==
    <<"in", "cheon", "ji", "beop", "2", "0", "2", "3", "gu", "hap", "5",
      "8", "6", "6", "8">>

\* 대전지법2023구합20240101
CaseLongSerial ==
    <<"dae", "jeon", "ji", "beop", "2", "0", "2", "3", "gu", "hap", "2",
      "0", "2", "4", "0", "1", "0", "1">>

\* 2024-12-19
Date20241219 == QueryDate

\* 2024-12-12
Date20241212 ==
    <<"2", "0", "2", "4", "-", "1", "2", "-", "1", "2">>

\* 2025-02-13
Date20250213 ==
    <<"2", "0", "2", "5", "-", "0", "2", "-", "1", "3">>

\* 2024-04-16
Date20240416 ==
    <<"2", "0", "2", "4", "-", "0", "4", "-", "1", "6">>

\* 대전세관
CustomsDaejeon ==
    <<"dae", "jeon", "se", "gwan">>

\* 인천공항세관
CustomsIncheonAirport ==
    <<"in", "cheon", "gong", "hang", "se", "gwan">>

\* 대법원
CourtSupreme == QueryCourt

\* [대법원 2025. 2. 13. 선고 2023도1907 판결]
Precedent2023Do1907 ==
    <<"[", "dae", "beop", "won", " ", "2", "0", "2", "5", ".", " ", "2",
      ".", " ", "1", "3", ".", " ", "seon", "go", " ", "2", "0", "2", "3",
      "do", "1", "9", "0", "7", " ", "pan", "gyeol", "]">>

\* [대법원 2024. 4. 16. 선고 2021두36196 판결]
Precedent2021Du36196 ==
    <<"[", "dae", "beop", "won", " ", "2", "0", "2", "4", ".", " ", "4",
      ".", " ", "1", "6", ".", " ", "seon", "go", " ", "2", "0", "2", "1",
      "du", "3", "6", "1", "9", "6", " ", "pan", "gyeol", "]">>

\* [대법원 2025. 2. 13. 선고 2023도20250301 판결]
PrecedentLongSerial ==
    <<"[", "dae", "beop", "won", " ", "2", "0", "2", "5", ".", " ", "2",
      ".", " ", "1", "3", ".", " ", "seon", "go", " ", "2", "0", "2", "3",
      "do", "2", "0", "2", "5", "0", "3", "0", "1", " ", "pan", "gyeol",
      "]">>

Queries ==
    {QueryBareCase, QueryBareCaseId, QueryDate, QueryCourt, QueryIrrelevant,
     QueryPunctuation, QueryLongSerialCase, QueryLongSerialCaseId,
     QueryMultiple, QueryCustoms}

\* SAMPLE_KCS_DATA, and a record whose serial has eight digits
KcsDaejeon ==
    [sageonbeonho |-> CaseDaejeon, seongoilja_jonggyeoril |-> Date20241219,
     cheobuncheong |-> CustomsDaejeon]

KcsIncheon ==
    [sageonbeonho |-> CaseIncheon, seongoilja_jonggyeoril |-> Date20241212,
     cheobuncheong |-> CustomsIncheonAirport]

KcsLongSerial ==
    [sageonbeonho |-> CaseLongSerial, seongoilja_jonggyeoril |-> Date20241219,
     cheobuncheong |-> CustomsDaejeon]

KcsRecords == {KcsDaejeon, KcsIncheon, KcsLongSerial}

\* SAMPLE_MOLEG_DATA, and a record whose serial has eight digits
Moleg2023Do1907 ==
    [pallyebeonho |-> Precedent2023Do1907, seongoilja |-> Date20250213,
     beobwonmyeong |-> CourtSupreme]

Moleg2021Du36196 ==
    [pallyebeonho |-> Precedent2021Du36196, seongoilja |-> Date20240416,
     beobwonmyeong |-> CourtSupreme]

MolegLongSerial ==
    [pallyebeonho |-> PrecedentLongSerial, seongoilja |-> Date20250213,
     beobwonmyeong |-> CourtSupreme]

MolegRecords == {Moleg2023Do1907, Moleg2021Du36196, MolegLongSerial}

\* 2023구합208027 2024-01-05 대전세관
QueryKcsThree ==
    <<"2", "0", "2", "3", "gu", "hap", "2", "0", "8", "0", "2", "7", " ",
      "2", "0", "2", "4", "-", "0", "1", "-", "0", "5", " ", "dae", "jeon",
      "se", "gwan">>

\* 인천지법2023구합208027
CaseIncheonSameCore ==
    <<"in", "cheon", "ji", "beop", "2", "0", "2", "3", "gu", "hap", "2",
      "0", "8", "0", "2", "7">>

\* 대전지법2023구합208027 판결
CaseWithText ==
    <<"dae", "jeon", "ji", "beop", "2", "0", "2", "3", "gu", "hap", "2",
      "0", "8", "0", "2", "7", " ", "pan", "gyeol">>

\* 2023구합208027 판결
CaseBareWithText ==
    <<"2", "0", "2", "3", "gu", "hap", "2", "0", "8", "0", "2", "7", " ",
      "pan", "gyeol">>

\* 2023구합2080
CaseShortSerial ==
    <<"2", "0", "2", "3", "gu", "hap", "2", "0", "8", "0">>

\* 2024구합208027
CaseOtherYear ==
    <<"2", "0", "2", "4", "gu", "hap", "2", "0", "8", "0", "2", "7">>

\* 대법원2023도1907
CaseSupremeNoSpace ==
    <<"dae", "beop", "won", "2", "0", "2", "3", "do", "1", "9", "0", "7">>

\* a record with the fields of both schemas, and a record with a case
\* number only
RecordBothSchemas ==
    [sageonbeonho |-> CaseDaejeon, seongoilja_jonggyeoril |-> Date20241219,
     cheobuncheong |-> CustomsDaejeon, pallyebeonho |-> Precedent2023Do1907,
     seongoilja |-> Date20250213, beobwonmyeong |-> CourtSupreme]

RecordCaseOnly == [sageonbeonho |-> CaseDaejeon]

\* the inputs of the calls of calculate_precedent_score and
\* get_matched_fields
ScoreQueries == Queries \cup {QueryKcsThree}

\* the records that lack fields: a KCS record and a MOLEG record with
\* every subset of their keys
PartialRecords ==
    {[k \in keys |-> KcsDaejeon[k]] : keys \in SUBSET DOMAIN KcsDaejeon}
    \cup {[k \in keys |-> Moleg2023Do1907[k]] :
             keys \in SUBSET DOMAIN Moleg2023Do1907}

ScoreRecords ==
    KcsRecords \cup MolegRecords \cup {RecordBothSchemas, RecordCaseOnly}
    \cup PartialRecords

Sources == {"kcs", "moleg"}

\* the records of both collections
SearchRecords ==
    {KcsDaejeon, KcsIncheon, KcsLongSerial, Moleg2023Do1907,
     Moleg2021Du36196, MolegLongSerial}

\* the inputs of the calls of detect_case_number and
\* match_case_number_score
CaseStrings ==
    {QueryBareCase, CaseDaejeon, CaseIncheon, CaseIncheonSameCore,
     CaseWithText, CaseBareWithText, CaseShortSerial, CaseOtherYear,
     QueryBareCaseId, CaseSupremeNoSpace, QueryIrrelevant, QueryPunctuation,
     <<>>}

\* 2023도1907.
PrecedentBareWithDot ==
    <<"2", "0", "2", "3", "do", "1", "9", "0", "7", ".">>

\* 2023도1907 X  and  2023도1907x
PrecedentBareUpper ==
    <<"2", "0", "2", "3", "do", "1", "9", "0", "7", " ", "X">>

PrecedentBareLower ==
    <<"2", "0", "2", "3", "do", "1", "9", "0", "7", "x">>

\* [대법원 2025.2.13.선고 2023도1907판결]
PrecedentNoSpaces ==
    <<"[", "dae", "beop", "won", " ", "2", "0", "2", "5", ".", "2", ".", "1",
      "3", ".", "seon", "go", " ", "2", "0", "2", "3", "do", "1", "9", "0",
      "7", "pan", "gyeol", "]">>

\* [서울고법 2024. 4. 16. 선고 2023도1907 판결]
PrecedentOtherCourt ==
    <<"[", "seo", "ul", "go", "beop", " ", "2", "0", "2", "4", ".", " ", "4",
      ".", " ", "1", "6", ".", " ", "seon", "go", " ", "2", "0", "2", "3",
      "do", "1", "9", "0", "7", " ", "pan", "gyeol", "]">>

\* 2023두1907
PrecedentOtherType ==
    <<"2", "0", "2", "3", "du", "1", "9", "0", "7">>

\* 2021도1907
PrecedentOtherYear ==
    <<"2", "0", "2", "1", "do", "1", "9", "0", "7">>

\* [대법원 2025. 2. 13. 선고 2023도1907 판결  (the bracket is not closed)
PrecedentUnclosed ==
    <<"[", "dae", "beop", "won", " ", "2", "0", "2", "5", ".", " ", "2",
      ".", " ", "1", "3", ".", " ", "seon", "go", " ", "2", "0", "2", "3",
      "do", "1", "9", "0", "7", " ", "pan", "gyeol">>

\* [대법원 2024. 4. 16. 선고 2023도1907 판결]
PrecedentOtherDate ==
    <<"[", "dae", "beop", "won", " ", "2", "0", "2", "4", ".", " ", "4",
      ".", " ", "1", "6", ".", " ", "seon", "go", " ", "2", "0", "2", "3",
      "do", "1", "9", "0", "7", " ", "pan", "gyeol", "]">>

\* the inputs of the calls of detect_precedent_number and
\* match_precedent_number_score
PrecedentStrings ==
    {QueryBareCaseId, Precedent2023Do1907, Precedent2021Du36196,
     PrecedentLongSerial, QueryLongSerialCaseId, PrecedentBareWithDot,
     PrecedentBareUpper, PrecedentBareLower, PrecedentNoSpaces,
     PrecedentOtherCourt, PrecedentOtherType, PrecedentOtherYear,
     PrecedentOtherDate, PrecedentUnclosed, CaseSupremeNoSpace, QueryIrrelevant,
     QueryPunctuation, <<>>}

\* the decimal digits of a number below 100, without and with a leading
\* zero, and of a year
DigitChars == <<"0", "1", "2", "3", "4", "5", "6", "7", "8", "9">>

Decimal(n) ==
    IF n < 10 THEN <<DigitChars[n + 1]>>
    ELSE <<DigitChars[(n \div 10) + 1], DigitChars[(n % 10) + 1]>>

Decimal2(n) == <<DigitChars[(n \div 10) + 1], DigitChars[(n % 10) + 1]>>

Decimal4(n) ==
    <<DigitChars[(n \div 1000) + 1], DigitChars[((n \div 100) % 10) + 1],
      DigitChars[((n \div 10) % 10) + 1], DigitChars[(n % 10) + 1]>>

\* the surface forms of a date, as the comments of DATE_PATTERNS and
\* test_date_detection_various_formats write them:
\*   2024-12-19, 2024.12.19, 2024 12. 19, 2024년 12월 19일, 20241219
\* month and day with a leading zero (padded) or without
DateForms == {"hyphen", "dot", "space_dot", "korean", "compact"}

Rendering(year, month, day, form, padded) ==
    LET y == Decimal4(year)
        m == IF padded THEN Decimal2(month) ELSE Decimal(month)
        d == IF padded THEN Decimal2(day) ELSE Decimal(day)
    IN  CASE form = "hyphen" -> y \o <<"-">> \o m \o <<"-">> \o d
          [] form = "dot" -> y \o <<".">> \o m \o <<".">> \o d
          [] form = "space_dot" -> y \o <<" ">> \o m \o <<".", " ">> \o d
          [] form = "korean" ->
                y \o <<"nyeon", " ">> \o m \o <<"wol", " ">> \o d \o <<"il">>
          [] form = "compact" -> y \o Decimal2(month) \o Decimal2(day)

\* the years, months and days of the dates given to detect_date: leap and
\* common years, a century year, a year below 1000, and months and days
\* on both sides of every limit of the calendar
DateYears == {999, 1900, 2000, 2023, 2024}
DateMonths == {0, 1, 2, 9, 10, 12, 13}
DateDays == {0, 1, 9, 10, 28, 29, 30, 31, 32}

RenderedDates ==
    {Rendering(year, month, day, form, padded) :
        year \in DateYears, month \in DateMonths, day \in DateDays,
        form \in DateForms, padded \in BOOLEAN}

\* 2024-01-15부터 2024-12-31까지, without the words
DateTwoDates ==
    <<"2", "0", "2", "4", "-", "0", "1", "-", "1", "5", " ", "2", "0", "2",
      "4", "-", "1", "2", "-", "3", "1">>

\* 2024-1-5 2024.01.05 20240105  (one date three times)
DateSameDateThrice ==
    <<"2", "0", "2", "4", "-", "1", "-", "5", " ", "2", "0", "2", "4", ".",
      "0", "1", ".", "0", "5", " ", "2", "0", "2", "4", "0", "1", "0", "5">>

\* 2024-13-32 2024-12-19
DateInvalidThenValid ==
    <<"2", "0", "2", "4", "-", "1", "3", "-", "3", "2", " ", "2", "0", "2",
      "4", "-", "1", "2", "-", "1", "9">>

\* 2024-12-195
DateThreeDigitDay ==
    <<"2", "0", "2", "4", "-", "1", "2", "-", "1", "9", "5">>

\* 120241332  (nine digits)
DateNineDigits == <<"1", "2", "0", "2", "4", "1", "3", "3", "2">>

\* 2024.12.19 2024-12-20  and  2024년 1월 5일 2024.12.19
DateDottedThenHyphen ==
    <<"2", "0", "2", "4", ".", "1", "2", ".", "1", "9", " ", "2", "0", "2",
      "4", "-", "1", "2", "-", "2", "0">>

DateKoreanThenDotted ==
    <<"2", "0", "2", "4", "nyeon", " ", "1", "wol", " ", "5", "il", " ", "2",
      "0", "2", "4", ".", "1", "2", ".", "1", "9">>

\* the inputs of the calls of detect_date
DateQueries ==
    RenderedDates
    \cup {DateDottedThenHyphen, DateKoreanThenDotted, DateTwoDates, DateSameDateThrice, DateInvalidThenValid,
          DateThreeDigitDay, DateNineDigits, QueryLongSerialCase,
          Precedent2023Do1907, QueryIrrelevant, QueryPunctuation, <<>>}

\* 2024-12, 2024, 2024.12.19, 2024.12, 2024. 12. 19.
DateYearMonth == <<"2", "0", "2", "4", "-", "1", "2">>

DateYear == <<"2", "0", "2", "4">>

DateDotted == <<"2", "0", "2", "4", ".", "1", "2", ".", "1", "9">>

DateDottedYearMonth == <<"2", "0", "2", "4", ".", "1", "2">>

DateDottedSpaced ==
    <<"2", "0", "2", "4", ".", " ", "1", "2", ".", " ", "1", "9", ".">>

\* 2024-12-20, 2024.12.20, 2025-12-19, 2024-11-19
Date20241220 == <<"2", "0", "2", "4", "-", "1", "2", "-", "2", "0">>

DateDotted20241220 == <<"2", "0", "2", "4", ".", "1", "2", ".", "2", "0">>

Date20251219 == <<"2", "0", "2", "5", "-", "1", "2", "-", "1", "9">>

Date20241119 == <<"2", "0", "2", "4", "-", "1", "1", "-", "1", "9">>

\* 2024-1-21 and 2024-12-1: different dates with equal digits
Date2024121a == <<"2", "0", "2", "4", "-", "1", "-", "2", "1">>

Date2024121b == <<"2", "0", "2", "4", "-", "1", "2", "-", "1">>

\* 2024-01-05 and 2024-1-7
Date20240105 == <<"2", "0", "2", "4", "-", "0", "1", "-", "0", "5">>

Date202417 == <<"2", "0", "2", "4", "-", "1", "-", "7">>

\* the inputs of the calls of match_date_score
DateStrings ==
    {Date20241219, DateYearMonth, DateYear, DateDotted, DateDottedYearMonth,
     DateDottedSpaced, Date20241220, DateDotted20241220, Date20251219,
     Date20241119, Date2024121a, Date2024121b, Date20240105, Date202417,
     QueryIrrelevant, QueryPunctuation, <<>>}

\* 서울고법, 서울고등법원, 서울, 부산고등법원, 인천지법, 서울중앙지방법원,
\* 서울지법
CourtSeoulHighShort == <<"seo", "ul", "go", "beop">>

CourtSeoulHigh == <<"seo", "ul", "go", "deung", "beop", "won">>

CourtSeoul == <<"seo", "ul">>

CourtBusanHigh == <<"bu", "san", "go", "deung", "beop", "won">>

CourtIncheonShort == <<"in", "cheon", "ji", "beop">>

CourtSeoulCentral ==
    <<"seo", "ul", "jung", "ang", "ji", "bang", "beop", "won">>

CourtSeoulDistrictShort == <<"seo", "ul", "ji", "beop">>

\* 대법원 판결
CourtInText == <<"dae", "beop", "won", " ", "pan", "gyeol">>

\* 판결  (a word of the query that names no court)
CourtWordRuling == <<"pan", "gyeol">>

\* 서울.  (a court name typed in part, with a full stop)
CourtSeoulDotted == <<"seo", "ul", ".">>

\* the inputs of the calls of detect_court and match_court_score
CourtStrings ==
    {QueryCourt, CourtWordRuling, CourtSeoulDotted, CourtSeoulHighShort, CourtSeoulHigh, CourtSeoul,
     CourtBusanHigh, CourtIncheonShort, CourtSeoulCentral,
     CourtSeoulDistrictShort, CourtInText, QueryIrrelevant, QueryPunctuation,
     <<>>}

\* 부산세관, 부산본부세관, 인천세관, 세관
CustomsBusan == <<"bu", "san", "se", "gwan">>

CustomsBusanMain == <<"bu", "san", "bon", "bu", "se", "gwan">>

CustomsIncheon == <<"in", "cheon", "se", "gwan">>

CustomsWord == <<"se", "gwan">>

\* 세관.
CustomsWordDotted == <<"se", "gwan", ".">>

\* 인천공항 and 인천공항세 (인천공항세관 typed in part)
CustomsIncheonAirportShort == <<"in", "cheon", "gong", "hang">>

CustomsIncheonAirportPart == <<"in", "cheon", "gong", "hang", "se">>

\* the inputs of the calls of detect_customs and match_customs_score
CustomsStrings ==
    {QueryCustoms, CustomsIncheonAirport, CustomsDaejeon, CustomsBusan,
     CustomsIncheonAirportShort, CustomsIncheonAirportPart,
     CustomsWordDotted,
     CustomsBusanMain, CustomsIncheon, CustomsWord, QueryIrrelevant,
     QueryPunctuation, <<>>}

\* the collections a caller keeps and searches more than once:
\* SAMPLE_KCS_DATA and SAMPLE_MOLEG_DATA, and collections that hold a
\* record twice
SessionData ==
    {[kcs |-> <<KcsDaejeon, KcsIncheon>>,
      moleg |-> <<Moleg2023Do1907, Moleg2021Du36196>>],
     [kcs |-> <<KcsIncheon, KcsDaejeon, KcsDaejeon>>,
      moleg |-> <<MolegLongSerial>>]}

\* the arguments of the searches of a session
SessionQueries == {QueryBareCase, QueryDate}

\* the most searches of a session
MaxCalls == 3

\* the most workers a scan is shared out to
MaxWorkers == 2

\* the most records a collection holds, and the largest top_k below the
\* default
MaxKcs == 2
MaxMoleg == 2
MaxTopK == 2

\* the defaults of search_precedent's signature
DefaultTopK == 20
DefaultMinScore == 30

\* the lists of at most max elements of pool
Collections(pool, max) == UNION {[1..n -> pool] : n \in 0..max}

TopKs == 0..MaxTopK \cup {DefaultTopK}

\* min_score, in units of 1/Scale point
MinScores == {0, DefaultMinScore * Scale, 85 * Scale, 90 * Scale}

-----------------------------------------------------------------------------
(* utils/precedent_search.py: the orchestrator.                            *)

\* the two calls search_precedent makes for one record
ScoreRecord(query, precedent, source) ==
    [score |-> calculate_precedent_score(query, precedent, source),
     matched_fields |-> get_matched_fields(query, precedent, source)]

\* ScoreRecord of every query and record of the model, evaluated once
\* the two calls for every query, record and source of the model,
\* evaluated once
Scores ==
    [query \in Queries, precedent \in SearchRecords, source \in Sources |->
        ScoreRecord(query, precedent, source)]

Scored(query, precedent, source) ==
    IF <<query, precedent, source>> \in DOMAIN Scores
    THEN Scores[query, precedent, source]
    ELSE ScoreRecord(query, precedent, source)

\* Scan with the min_score test left out
RECURSIVE ScanUnfiltered(_, _, _, _, _)
ScanUnfiltered(query, data, source, min_score, i) ==
    LET append(r) ==
            <<[score |-> r.score, source |-> source, index |-> i,
               data |-> data[i], matched_fields |-> r.matched_fields]>>
            \o ScanUnfiltered(query, data, source, min_score, i + 1)
    IN  IF i > Len(data) THEN <<>>
        ELSE append(Scored(query, data[i], source))

\* one scan loop of search_precedent over a collection.  index is the
\* position of the scanned record in its collection: it stands for the
\* identity of the dict that 'data' refers to.
RECURSIVE Scan(_, _, _, _, _)
Scan(query, data, source, min_score, i) ==
    LET append(r) ==
            (IF r.score >= min_score
             THEN <<[score |-> r.score, source |-> source, index |-> i,
                     data |-> data[i], matched_fields |-> r.matched_fields]>>
             ELSE <<>>)
            \o Scan(query, data, source, min_score, i + 1)
    IN  IF i > Len(data) THEN <<>>
        ELSE append(Scored(query, data[i], source))

\* a descending sort that is not stable: a result goes before the results
\* of equal score
RECURSIVE SortUnstable(_)
SortUnstable(results) ==
    IF results = <<>> THEN <<>>
    ELSE LET sorted == SortUnstable(SubSeq(results, 1, Len(results) - 1))
             x == results[Len(results)]
             before == {k \in 1..Len(sorted) : sorted[k].score > x.score}
             n == IF before = {} THEN 0 ELSE SetMax(before)
         IN  SubSeq(sorted, 1, n) \o <<x>> \o SubSeq(sorted, n + 1, Len(sorted))

\* results.sort(key=lambda x: x['score'], reverse=True): list.sort is
\* stable, also with reverse=True (equal keys keep their original order)
RECURSIVE SortByScoreDesc(_)
SortByScoreDesc(results) ==
    IF results = <<>> THEN <<>>
    ELSE LET sorted == SortByScoreDesc(SubSeq(results, 1, Len(results) - 1))
             x == results[Len(results)]
             before == {k \in 1..Len(sorted) : sorted[k].score >= x.score}
             n == IF before = {} THEN 0 ELSE SetMax(before)
         IN  SubSeq(sorted, 1, n) \o <<x>> \o SubSeq(sorted, n + 1, Len(sorted))

\* results[:top_k]
SliceTo(results, top_k) ==
    IF top_k >= 0
    THEN SubSeq(results, 1, IF top_k < Len(results) THEN top_k ELSE Len(results))
    ELSE SubSeq(results, 1, Len(results) + top_k)

\* the record at a position of the scan: the kcs records, then the moleg
\* records
SourceAt(data_kcs, p) == IF p <= Len(data_kcs) THEN "kcs" ELSE "moleg"

IndexAt(data_kcs, p) == IF p <= Len(data_kcs) THEN p ELSE p - Len(data_kcs)

\* the partial result list of worker w: the loop body of search_precedent
\* on the records that owner gives to w, in scan order
RECURSIVE WorkerScan(_, _, _, _, _, _, _)
WorkerScan(query, data_kcs, data_moleg, min_score, owner, w, p) ==
    LET source == SourceAt(data_kcs, p)
        i == IndexAt(data_kcs, p)
        data == IF p <= Len(data_kcs) THEN data_kcs ELSE data_moleg
        append(r) ==
            (IF owner[p] = w /\ r.score >= min_score
             THEN <<[score |-> r.score, source |-> source, index |-> i,
                     data |-> data[i], matched_fields |-> r.matched_fields]>>
             ELSE <<>>)
            \o WorkerScan(query, data_kcs, data_moleg, min_score, owner, w,
                          p + 1)
    IN  IF p > Len(data_kcs) + Len(data_moleg) THEN <<>>
        ELSE append(Scored(query, data[i], source))

\* a scan loop that takes the records out of the list it scans
CollectionDrained(data) == <<>>

\* the list a scan loop leaves behind: 'for precedent in data_kcs' reads
\* the list, and the scorers read the record ('in' and subscription only);
\* nothing is assigned to, appended to or removed from either
CollectionAfterScan(data) == data

\* search_precedent with the truncation done before the sort
SearchTruncateFirst(query, data_kcs, data_moleg, top_k, min_score) ==
    SortByScoreDesc(SliceTo(Scan(query, data_kcs, "kcs", min_score, 1)
                            \o Scan(query, data_moleg, "moleg", min_score, 1),
                            top_k))

search_precedent(query, data_kcs, data_moleg, top_k, min_score) ==
    SliceTo(SortByScoreDesc(Scan(query, data_kcs, "kcs", min_score, 1)
                            \o Scan(query, data_moleg, "moleg", min_score, 1)),
            top_k)


-----------------------------------------------------------------------------
(* The engine keeps no state between calls: pc, fn, arg and ret are the   *)
(* last call, its arguments and what it returned.  store is the two lists  *)
(* a caller keeps and passes to every search (SAMPLE_KCS_DATA and          *)
(* SAMPLE_MOLEG_DATA of the integration tests, the loaded data of main.py), *)
(* calls is the searches made on them so far, workers is the state of the  *)
(* workers of a search whose scan is shared out.                           *)

Init ==
    /\ pc = "idle"
    /\ fn = "none"
    /\ arg = <<>>
    /\ ret = <<>>
    /\ store = [kcs |-> <<>>, moleg |-> <<>>]
    /\ calls = <<>>
    /\ workers = <<>>

\* the caller takes the result; the engine is ready for the next call
Return ==
    /\ pc = "returned"
    /\ pc' = "idle"
    /\ fn' = "none"
    /\ arg' = <<>>
    /\ ret' = <<>>
    /\ UNCHANGED <<store, calls, workers>>

SearchPrecedent ==
    /\ pc = "idle"
    /\ \E query \in Queries,
          data_kcs \in Collections(KcsRecords, MaxKcs),
          data_moleg \in Collections(MolegRecords, MaxMoleg),
          top_k \in TopKs,
          min_score \in MinScores :
            /\ arg' = [query |-> query, data_kcs |-> data_kcs,
                       data_moleg |-> data_moleg, top_k |-> top_k,
                       min_score |-> min_score]
            /\ ret' = search_precedent(query, data_kcs, data_moleg, top_k,
                                       min_score)
    /\ fn' = "search_precedent"
    /\ pc' = "returned"
    /\ UNCHANGED <<store, calls, workers>>

Next == SearchPrecedent \/ Return

Spec == Init /\ [][Next]_vars

\* a call of calculate_precedent_score
CalculatePrecedentScore ==
    /\ pc = "idle"
    /\ \E query \in ScoreQueries, precedent_data \in ScoreRecords,
          source \in Sources :
            /\ arg' = [query |-> query, precedent_data |-> precedent_data,
                       source |-> source]
            /\ ret' = calculate_precedent_score(query, precedent_data, source)
    /\ fn' = "calculate_precedent_score"
    /\ pc' = "returned"
    /\ UNCHANGED <<store, calls, workers>>

\* a call of get_matched_fields
GetMatchedFields ==
    /\ pc = "idle"
    /\ \E query \in ScoreQueries, precedent_data \in ScoreRecords,
          source \in Sources :
            /\ arg' = [query |-> query, precedent_data |-> precedent_data,
                       source |-> source]
            /\ ret' = get_matched_fields(query, precedent_data, source)
    /\ fn' = "get_matched_fields"
    /\ pc' = "returned"
    /\ UNCHANGED <<store, calls, workers>>

NextScore == CalculatePrecedentScore \/ GetMatchedFields \/ Return

SpecScore == Init /\ [][NextScore]_vars

\* a call of detect_case_number
DetectCaseNumber ==
    /\ pc = "idle"
    /\ \E query \in CaseStrings :
            /\ arg' = [query |-> query]
            /\ ret' = detect_case_number(query)
    /\ fn' = "detect_case_number"
    /\ pc' = "returned"
    /\ UNCHANGED <<store, calls, workers>>

\* a call of match_case_number_score
MatchCaseNumberScore ==
    /\ pc = "idle"
    /\ \E query \in CaseStrings, target \in CaseStrings :
            /\ arg' = [query |-> query, target |-> target]
            /\ ret' = match_case_number_score(query, target)
    /\ fn' = "match_case_number_score"
    /\ pc' = "returned"
    /\ UNCHANGED <<store, calls, workers>>

NextCase == DetectCaseNumber \/ MatchCaseNumberScore \/ Return

SpecCase == Init /\ [][NextCase]_vars

\* a call of detect_precedent_number
DetectPrecedentNumber ==
    /\ pc = "idle"
    /\ \E query \in PrecedentStrings :
            /\ arg' = [query |-> query]
            /\ ret' = detect_precedent_number(query)
    /\ fn' = "detect_precedent_number"
    /\ pc' = "returned"
    /\ UNCHANGED <<store, calls, workers>>

\* a call of match_precedent_number_score
MatchPrecedentNumberScore ==
    /\ pc = "idle"
    /\ \E query \in PrecedentStrings, target \in PrecedentStrings :
            /\ arg' = [query |-> query, target |-> target]
            /\ ret' = match_precedent_number_score(query, target)
    /\ fn' = "match_precedent_number_score"
    /\ pc' = "returned"
    /\ UNCHANGED <<store, calls, workers>>

NextPrecedent == DetectPrecedentNumber \/ MatchPrecedentNumberScore \/ Return

SpecPrecedent == Init /\ [][NextPrecedent]_vars


\* a call of detect_date
DetectDate ==
    /\ pc = "idle"
    /\ \E query \in DateQueries :
            /\ arg' = [query |-> query]
            /\ ret' = detect_date(query)
    /\ fn' = "detect_date"
    /\ pc' = "returned"
    /\ UNCHANGED <<store, calls, workers>>

\* a call of match_date_score
MatchDateScore ==
    /\ pc = "idle"
    /\ \E query_date \in DateStrings, target_date \in DateStrings :
            /\ arg' = [query_date |-> query_date, target_date |-> target_date]
            /\ ret' = match_date_score(query_date, target_date)
    /\ fn' = "match_date_score"
    /\ pc' = "returned"
    /\ UNCHANGED <<store, calls, workers>>

NextDate == DetectDate \/ MatchDateScore \/ Return

SpecDate == Init /\ [][NextDate]_vars


\* a call of detect_court
DetectCourt ==
    /\ pc = "idle"
    /\ \E query \in CourtStrings :
            /\ arg' = [query |-> query]
            /\ ret' = detect_court(query)
    /\ fn' = "detect_court"
    /\ pc' = "returned"
    /\ UNCHANGED <<store, calls, workers>>

\* a call of detect_customs
DetectCustoms ==
    /\ pc = "idle"
    /\ \E query \in CustomsStrings :
            /\ arg' = [query |-> query]
            /\ ret' = detect_customs(query)
    /\ fn' = "detect_customs"
    /\ pc' = "returned"
    /\ UNCHANGED <<store, calls, workers>>

\* a call of match_court_score
MatchCourtScore ==
    /\ pc = "idle"
    /\ \E query \in CourtStrings, target \in CourtStrings :
            /\ arg' = [query |-> query, target |-> target]
            /\ ret' = match_court_score(query, target)
    /\ fn' = "match_court_score"
    /\ pc' = "returned"
    /\ UNCHANGED <<store, calls, workers>>

\* a call of match_customs_score
MatchCustomsScore ==
    /\ pc = "idle"
    /\ \E query \in CustomsStrings, target \in CustomsStrings :
            /\ arg' = [query |-> query, target |-> target]
            /\ ret' = match_customs_score(query, target)
    /\ fn' = "match_customs_score"
    /\ pc' = "returned"
    /\ UNCHANGED <<store, calls, workers>>

NextAlias ==
    \/ DetectCourt
    \/ DetectCustoms
    \/ MatchCourtScore
    \/ MatchCustomsScore
    \/ Return

SpecAlias == Init /\ [][NextAlias]_vars


\* the calls of every detector and of every field scorer
NextFields ==
    \/ DetectCaseNumber
    \/ DetectPrecedentNumber
    \/ DetectDate
    \/ DetectCourt
    \/ DetectCustoms
    \/ MatchCaseNumberScore
    \/ MatchPrecedentNumberScore
    \/ MatchDateScore
    \/ MatchCourtScore
    \/ MatchCustomsScore
    \/ Return

SpecFields == Init /\ [][NextFields]_vars


\* a call of detect_court or detect_customs on a name or a surface form
\* of its table
DetectTableEntry ==
    /\ pc = "idle"
    /\ \/ /\ \E k \in 1..Len(COURT_PAIRS) :
                \E query \in {COURT_PAIRS[k].standard_name,
                              COURT_PAIRS[k].alias} :
                    /\ arg' = [query |-> query]
                    /\ ret' = detect_court(query)
          /\ fn' = "detect_court"
       \/ /\ \E k \in 1..Len(CUSTOMS_PAIRS) :
                \E query \in {CUSTOMS_PAIRS[k].standard_name,
                              CUSTOMS_PAIRS[k].alias} :
                    /\ arg' = [query |-> query]
                    /\ ret' = detect_customs(query)
          /\ fn' = "detect_customs"
    /\ pc' = "returned"
    /\ UNCHANGED <<store, calls, workers>>

\* a call of match_court_score on a name of COURT_ALIASES and one of its
\* surface forms, in either order
MatchCourtTableEntry ==
    /\ pc = "idle"
    /\ \E k \in 1..Len(COURT_PAIRS), swapped \in BOOLEAN :
            LET query == IF swapped THEN COURT_PAIRS[k].alias
                         ELSE COURT_PAIRS[k].standard_name
                target == IF swapped THEN COURT_PAIRS[k].standard_name
                          ELSE COURT_PAIRS[k].alias
            IN  /\ arg' = [query |-> query, target |-> target]
                /\ ret' = match_court_score(query, target)
    /\ fn' = "match_court_score"
    /\ pc' = "returned"
    /\ UNCHANGED <<store, calls, workers>>

\* a call of match_customs_score on a name of CUSTOMS_ALIASES and one of
\* its surface forms, in either order
MatchCustomsTableEntry ==
    /\ pc = "idle"
    /\ \E k \in 1..Len(CUSTOMS_PAIRS), swapped \in BOOLEAN :
            LET query == IF swapped THEN CUSTOMS_PAIRS[k].alias
                         ELSE CUSTOMS_PAIRS[k].standard_name
                target == IF swapped THEN CUSTOMS_PAIRS[k].standard_name
                          ELSE CUSTOMS_PAIRS[k].alias
            IN  /\ arg' = [query |-> query, target |-> target]
                /\ ret' = match_customs_score(query, target)
    /\ fn' = "match_customs_score"
    /\ pc' = "returned"
    /\ UNCHANGED <<store, calls, workers>>

NextTables ==
    DetectTableEntry \/ MatchCourtTableEntry \/ MatchCustomsTableEntry
    \/ Return

SpecTables == Init /\ [][NextTables]_vars

\* the caller loads its two collections
LoadData ==
    /\ pc = "idle"
    /\ store = [kcs |-> <<>>, moleg |-> <<>>]
    /\ calls = <<>>
    /\ store' \in SessionData
    /\ UNCHANGED <<pc, fn, arg, ret, calls, workers>>

\* the caller searches its collections once more
SessionSearch ==
    /\ pc = "idle"
    /\ store # [kcs |-> <<>>, moleg |-> <<>>]
    /\ Len(calls) < MaxCalls
    /\ \E query \in SessionQueries, top_k \in {1, DefaultTopK},
          min_score \in {0, DefaultMinScore * Scale} :
            /\ arg' = [query |-> query, data_kcs |-> store.kcs,
                       data_moleg |-> store.moleg, top_k |-> top_k,
                       min_score |-> min_score]
            /\ ret' = search_precedent(query, store.kcs, store.moleg, top_k,
                                       min_score)
    /\ store' = [kcs |-> CollectionAfterScan(store.kcs),
                 moleg |-> CollectionAfterScan(store.moleg)]
    /\ calls' = Append(calls, [arg |-> arg', ret |-> ret', store |-> store'])
    /\ fn' = "search_precedent"
    /\ pc' = "returned"
    /\ UNCHANGED workers

NextSession == LoadData \/ SessionSearch \/ Return

SpecSession == Init /\ [][NextSession]_vars

\* a search whose scan is shared out: every record of the two collections
\* is given to one worker
ParallelStart ==
    /\ pc = "idle"
    /\ store # [kcs |-> <<>>, moleg |-> <<>>]
    /\ \E query \in SessionQueries, top_k \in {1, 2, DefaultTopK},
          min_score \in {0, DefaultMinScore * Scale} :
            arg' = [query |-> query, data_kcs |-> store.kcs,
                    data_moleg |-> store.moleg, top_k |-> top_k,
                    min_score |-> min_score]
    /\ \E owner \in [1..(Len(store.kcs) + Len(store.moleg)) -> 1..MaxWorkers] :
            workers' = [owner |-> owner, done |-> {}, merged |-> <<>>]
    /\ ret' = <<>>
    /\ fn' = "parallel_search"
    /\ pc' = "scanning"
    /\ UNCHANGED <<store, calls>>

\* a worker finishes: its partial list is appended to the merged list
WorkerFinish ==
    /\ pc = "scanning"
    /\ \E w \in (1..MaxWorkers) \ workers.done :
            workers' = [workers EXCEPT
                            !.done = @ \cup {w},
                            !.merged = @ \o WorkerScan(arg.query, arg.data_kcs,
                                                       arg.data_moleg,
                                                       arg.min_score,
                                                       workers.owner, w, 1)]
    /\ UNCHANGED <<pc, fn, arg, ret, store, calls>>

\* every worker has finished: the sort and the truncation of
\* search_precedent are applied to the merged list
ParallelMerge ==
    /\ pc = "scanning"
    /\ workers.done = 1..MaxWorkers
    /\ ret' = SliceTo(SortByScoreDesc(workers.merged), arg.top_k)
    /\ pc' = "returned"
    /\ UNCHANGED <<fn, arg, store, calls, workers>>

NextParallel ==
    LoadData \/ ParallelStart \/ WorkerFinish \/ ParallelMerge \/ Return

SpecParallel == Init /\ [][NextParallel]_vars


-----------------------------------------------------------------------------
(* Properties of search_precedent, checked under Spec.                     *)

Searched == pc = "returned" /\ fn = "search_precedent"

\* detect_all_patterns of every query of the model, evaluated once
AllPatterns == [query \in Queries |-> detect_all_patterns(query)]

\* the collection a result was scanned from, and the position of its
\* record in the scan (the KCS records first, then the MOLEG records)
CollectionOf(source) ==
    IF source = "kcs" THEN arg.data_kcs ELSE arg.data_moleg

ScanPosition(source, index) ==
    IF source = "kcs" THEN index ELSE Len(arg.data_kcs) + index

\* the aggregate score of the record at a position of a collection
ScoreAt(source, index) ==
    Scored(arg.query, CollectionOf(source)[index], source).score

\* the scanned records whose aggregate score reaches min_score
Qualifying ==
    {x \in ({"kcs"} \X (1..Len(arg.data_kcs)))
           \cup ({"moleg"} \X (1..Len(arg.data_moleg))) :
        ScoreAt(x[1], x[2]) >= arg.min_score}

Returned == {<<ret[k].source, ret[k].index>> : k \in 1..Len(ret)}

\* C1: every result search_precedent returns carries the aggregate score
\* of the record it refers to, and that score is at least min_score
C1_ScoreAtLeastMinScore ==
    Searched =>
        \A k \in 1..Len(ret) :
            /\ ret[k].index \in 1..Len(CollectionOf(ret[k].source))
            /\ ret[k].score = ScoreAt(ret[k].source, ret[k].index)
            /\ ret[k].score >= arg.min_score

\* C1 witness: a call that returned a record and dropped another one whose
\* score is below a positive min_score
C1_Witness ==
    /\ Searched
    /\ arg.min_score > 0
    /\ arg.top_k = DefaultTopK
    /\ ret # <<>>
    /\ Len(ret) < Len(arg.data_kcs) + Len(arg.data_moleg)

\* C2: the returned list is sorted by score, non-increasing, and results of
\* equal score are in scan order: KCS before MOLEG, and within a collection
\* in the order of the collection
C2_SortedStable ==
    Searched =>
        \A i, j \in 1..Len(ret) :
            i < j =>
                /\ ret[i].score >= ret[j].score
                /\ ret[i].score = ret[j].score =>
                       ScanPosition(ret[i].source, ret[i].index)
                           < ScanPosition(ret[j].source, ret[j].index)

\* C2 witness: one returned list in which the sort moved a MOLEG result in
\* front of a KCS result, two different KCS records tie, and a KCS and a
\* MOLEG record tie
C2_Witness ==
    /\ Searched
    /\ \E i, j \in 1..Len(ret) :
          /\ i < j
          /\ ret[i].source = "moleg" /\ ret[j].source = "kcs"
          /\ ret[i].score > ret[j].score
    /\ \E i, j \in 1..Len(ret) :
          /\ i < j
          /\ ret[i].source = "kcs" /\ ret[j].source = "kcs"
          /\ ret[i].score = ret[j].score
          /\ ret[i].data # ret[j].data
    /\ \E i, j \in 1..Len(ret) :
          /\ i < j
          /\ ret[i].source = "kcs" /\ ret[j].source = "moleg"
          /\ ret[i].score = ret[j].score

\* C3: for top_k >= 0 the returned list is the first min(top_k, n) elements
\* of the sorted list of all n qualifying records of both collections: it
\* has that length, holds no record twice, holds qualifying records only,
\* and every qualifying record left out comes after every returned one
C3_FirstTopKOfAllQualifying ==
    Searched /\ arg.top_k >= 0 =>
        /\ Len(ret) = IF arg.top_k < Cardinality(Qualifying) THEN arg.top_k
                      ELSE Cardinality(Qualifying)
        /\ Len(ret) <= arg.top_k
        /\ Cardinality(Returned) = Len(ret)
        /\ Returned \subseteq Qualifying
        /\ \A x \in Qualifying \ Returned :
              \A k \in 1..Len(ret) :
                  \/ ret[k].score > ScoreAt(x[1], x[2])
                  \/ /\ ret[k].score = ScoreAt(x[1], x[2])
                     /\ ScanPosition(ret[k].source, ret[k].index)
                            < ScanPosition(x[1], x[2])

\* C3 witness: a call that cut qualifying records off, the best of them
\* scanned last
C3_Witness ==
    /\ Searched
    /\ arg.top_k > 0
    /\ Cardinality(Qualifying) > arg.top_k
    /\ Len(ret) = arg.top_k
    /\ ret[1].source = "moleg"
    /\ ret[1].index = Len(arg.data_moleg)
    /\ arg.data_kcs # <<>>

\* no detector finds anything in the query
NothingDetected(query) ==
    /\ AllPatterns[query].case_number = None
    /\ AllPatterns[query].precedent_number = None
    /\ AllPatterns[query].dates = <<>>
    /\ AllPatterns[query].court = None
    /\ AllPatterns[query].customs = None

\* C4 as claimed: a query in which no detector finds anything yields the
\* empty list for every min_score
C4_Claimed_EmptyForEveryMinScore ==
    Searched /\ NothingDetected(arg.query) => ret = <<>>

\* C4 as amended: a query in which no detector finds anything yields the
\* empty list for every min_score greater than 0
C4_EmptyForPositiveMinScore ==
    Searched /\ NothingDetected(arg.query) /\ arg.min_score > 0 => ret = <<>>

\* C4 witness: such a query searched in non-empty collections with a
\* positive min_score
C4_Witness ==
    /\ Searched
    /\ NothingDetected(arg.query)
    /\ arg.min_score > 0
    /\ arg.top_k > 0
    /\ arg.data_kcs # <<>>
    /\ arg.data_moleg # <<>>
    /\ ret = <<>>

\* detect_case_number of the case number of every KCS record of the model
\* and detect_precedent_number of the precedent number of every MOLEG
\* record, evaluated once
KcsCaseNumbers ==
    [precedent \in KcsRecords |->
        detect_case_number(precedent["sageonbeonho"])]

MolegPrecedentNumbers ==
    [precedent \in MolegRecords |->
        detect_precedent_number(precedent["pallyebeonho"])]

\* the query is a case number and nothing else, without a court
BareCaseNumber(query) ==
    /\ AllPatterns[query].case_number # None
    /\ AllPatterns[query].case_number.court = <<>>
    /\ AllPatterns[query].case_number.full = query

\* the case number of the KCS record has a court in front and the year,
\* the case type and the serial of the query
SameCaseWithCourt(query, precedent) ==
    /\ KcsCaseNumbers[precedent] # None
    /\ KcsCaseNumbers[precedent].court # <<>>
    /\ KcsCaseNumbers[precedent].year = AllPatterns[query].case_number.year
    /\ KcsCaseNumbers[precedent].type = AllPatterns[query].case_number.type
    /\ KcsCaseNumbers[precedent].number
           = AllPatterns[query].case_number.number

\* the precedent number of the MOLEG record scores 0 against the query
UnrelatedPrecedent(query, precedent) ==
    match_precedent_number_score(query, precedent["pallyebeonho"]) = 0

UnrelatedPrecedents ==
    [query \in Queries, precedent \in MolegRecords |->
        UnrelatedPrecedent(query, precedent)]

\* C5: a search with the default top_k and min_score for a bare case number
\* returns first, with source kcs and a score of at least 85, the KCS
\* record whose court-prefixed case number has the same year, type and
\* serial, when the precedent numbers of the MOLEG records are unrelated
C5_Claimed_BareCaseNumberFirst ==
    /\ Searched
    /\ arg.top_k = DefaultTopK
    /\ arg.min_score = DefaultMinScore * Scale
    /\ BareCaseNumber(arg.query)
    /\ \A j \in 1..Len(arg.data_moleg) :
          UnrelatedPrecedents[arg.query, arg.data_moleg[j]]
    => \A i \in 1..Len(arg.data_kcs) :
          SameCaseWithCourt(arg.query, arg.data_kcs[i]) =>
              /\ ret # <<>>
              /\ ret[1].source = "kcs"
              /\ ret[1].data = arg.data_kcs[i]
              /\ ret[1].score >= 85 * Scale

\* C5 holds for the queries in which detect_date finds no date: the record
\* is then first with a score of exactly 85
C5_WithoutDateInSerial ==
    /\ Searched
    /\ arg.top_k = DefaultTopK
    /\ arg.min_score = DefaultMinScore * Scale
    /\ BareCaseNumber(arg.query)
    /\ AllPatterns[arg.query].dates = <<>>
    /\ \A j \in 1..Len(arg.data_moleg) :
          UnrelatedPrecedents[arg.query, arg.data_moleg[j]]
    => \A i \in 1..Len(arg.data_kcs) :
          SameCaseWithCourt(arg.query, arg.data_kcs[i]) =>
              /\ ret # <<>>
              /\ ret[1].source = "kcs"
              /\ ret[1].data = arg.data_kcs[i]
              /\ ret[1].score = 85 * Scale

\* the state that refutes C5: the serial of the query has eight digits, in
\* which detect_date finds a date; the record with the same case number is
\* returned with a score below 85
C5_Refuted ==
    /\ Searched
    /\ arg.top_k = DefaultTopK
    /\ arg.min_score = DefaultMinScore * Scale
    /\ BareCaseNumber(arg.query)
    /\ AllPatterns[arg.query].dates # <<>>
    /\ arg.data_moleg = <<>>
    /\ Len(arg.data_kcs) = 1
    /\ SameCaseWithCourt(arg.query, arg.data_kcs[1])
    /\ Len(ret) = 1
    /\ ret[1].matched_fields["sageonbeonho"] = 85
    /\ ret[1].matched_fields["seongoilja"] = 40
    /\ ret[1].score < 85 * Scale

\* the query is a case id and nothing else
BareCaseId(query) ==
    /\ AllPatterns[query].precedent_number # None
    /\ AllPatterns[query].precedent_number.full = query
    /\ AllPatterns[query].precedent_number.case_id = query

\* the precedent number of the MOLEG record is bracketed and holds the
\* query as its case id
SameCaseIdInBrackets(query, precedent) ==
    /\ MolegPrecedentNumbers[precedent] # None
    /\ MolegPrecedentNumbers[precedent].court # <<>>
    /\ MolegPrecedentNumbers[precedent].case_id = query

\* C6: a search for a bare case id with min_score at most 90 and top_k not
\* below the number of records returns, with source moleg and a score of at
\* least 90, the MOLEG record whose bracketed precedent number holds that
\* case id
C6_Claimed_BareCaseIdReturned ==
    /\ Searched
    /\ arg.min_score <= 90 * Scale
    /\ arg.top_k >= Len(arg.data_kcs) + Len(arg.data_moleg)
    /\ BareCaseId(arg.query)
    => \A i \in 1..Len(arg.data_moleg) :
          SameCaseIdInBrackets(arg.query, arg.data_moleg[i]) =>
              \E k \in 1..Len(ret) :
                  /\ ret[k].source = "moleg"
                  /\ ret[k].index = i
                  /\ ret[k].score >= 90 * Scale

\* C6 holds for the queries in which detect_date finds no date
C6_WithoutDateInSerial ==
    /\ Searched
    /\ arg.min_score <= 90 * Scale
    /\ arg.top_k >= Len(arg.data_kcs) + Len(arg.data_moleg)
    /\ BareCaseId(arg.query)
    /\ AllPatterns[arg.query].dates = <<>>
    => \A i \in 1..Len(arg.data_moleg) :
          SameCaseIdInBrackets(arg.query, arg.data_moleg[i]) =>
              \E k \in 1..Len(ret) :
                  /\ ret[k].source = "moleg"
                  /\ ret[k].index = i
                  /\ ret[k].score = 90 * Scale

\* the state that refutes C6: the serial of the query has eight digits, in
\* which detect_date finds a date; the record that holds the case id is
\* returned with a score below 90, or not at all when min_score is 90
C6_Refuted ==
    /\ Searched
    /\ arg.top_k = DefaultTopK
    /\ BareCaseId(arg.query)
    /\ AllPatterns[arg.query].dates # <<>>
    /\ arg.data_kcs = <<>>
    /\ Len(arg.data_moleg) = 1
    /\ SameCaseIdInBrackets(arg.query, arg.data_moleg[1])
    /\ \/ /\ arg.min_score = DefaultMinScore * Scale
          /\ Len(ret) = 1
          /\ ret[1].matched_fields["pallyebeonho"] = 90
          /\ ret[1].matched_fields["seongoilja"] = 40
          /\ ret[1].score < 90 * Scale
       \/ /\ arg.min_score = 90 * Scale
          /\ ret = <<>>

-----------------------------------------------------------------------------
(* Properties of calculate_precedent_score, checked under SpecScore.       *)

Calculated == pc = "returned" /\ fn = "calculate_precedent_score"

\* the fields that contribute to the score of the call in progress
Contributing == field_scores(arg.query, arg.precedent_data, arg.source)

RECURSIVE SumOf(_, _)
SumOf(f, S) ==
    IF S = {} THEN 0
    ELSE LET x == CHOOSE y \in S : TRUE
         IN  f[x] + SumOf(f, S \ {x})

\* the sum of score * weight and the sum of the weights of the
\* contributing fields
WeightedSum ==
    SumOf([k \in 1..Len(Contributing) |->
              Contributing[k].score * Contributing[k].weight],
          1..Len(Contributing))

WeightSum ==
    SumOf([k \in 1..Len(Contributing) |-> Contributing[k].weight],
          1..Len(Contributing))

\* the bonus of the claim: 0, 5 or 10 points for 1, 2 or at least 3 fields
BonusOf(n) == IF n <= 1 THEN 0 ELSE IF n = 2 THEN 5 ELSE 10

\* C7: calculate_precedent_score returns 0 when no field contributes;
\* otherwise min(base + bonus, 100), the base being the sum of score *
\* weight over the contributing fields divided by the sum of their weights
\* and the bonus 0, 5 or 10 for 1, 2 or at least 3 contributing fields; a
\* single contributing field gives exactly its score
C7_AggregateFormula ==
    Calculated =>
        LET n == Len(Contributing)
            uncapped == ret - BonusOf(n) * Scale
        IN  /\ n = 0 => ret = 0
            /\ n = 1 => ret = Contributing[1].score * Scale
            /\ n > 0 =>
                  /\ ret <= 100 * Scale
                  /\ ret < 100 * Scale =>
                        uncapped * WeightSum = WeightedSum * Scale
                  /\ ret = 100 * Scale =>
                        (100 - BonusOf(n)) * WeightSum <= WeightedSum

\* C7 witness: three contributing fields with different scores whose
\* weighted mean plus the bonus of 10 stays below 100
C7_Witness ==
    /\ Calculated
    /\ Len(Contributing) = 3
    /\ Contributing[1].score # Contributing[2].score
    /\ Contributing[2].score # Contributing[3].score
    /\ ret < 100 * Scale
    /\ ret > 0

\* the keys of a record that calculate_precedent_score may read for a
\* source
SourceFields(source) ==
    IF source = "kcs"
    THEN {"sageonbeonho", "seongoilja_jonggyeoril", "cheobuncheong"}
    ELSE {"pallyebeonho", "seongoilja", "beobwonmyeong"}

Restrict(precedent_data, keys) ==
    [k \in DOMAIN precedent_data \cap keys |-> precedent_data[k]]

\* the largest match_date_score of the dates against the target, 0 for none
MaxOverDates(dates, target) ==
    SetMax({0} \cup {match_date_score(dates[k], target) : k \in 1..Len(dates)})

\* what one field of the claim contributes: its name, its weight in tenths
\* and its score, 0 when it does not contribute
FieldOfClaim(name, weight, present, score) ==
    [name |-> name, weight |-> weight, score |-> IF present THEN score ELSE 0]

FieldsOfClaim(query, precedent_data, source) ==
    IF source = "kcs"
    THEN {FieldOfClaim("case_number", 6,
              "sageonbeonho" \in DOMAIN precedent_data,
              match_case_number_score(query, precedent_data["sageonbeonho"])),
          FieldOfClaim("date", 2,
              "seongoilja_jonggyeoril" \in DOMAIN precedent_data,
              MaxOverDates(detect_date(query),
                           precedent_data["seongoilja_jonggyeoril"])),
          FieldOfClaim("customs", 2,
              /\ "cheobuncheong" \in DOMAIN precedent_data
              /\ detect_customs(query) # None,
              match_customs_score(query, precedent_data["cheobuncheong"]))}
    ELSE {FieldOfClaim("precedent_number", 6,
              "pallyebeonho" \in DOMAIN precedent_data,
              match_precedent_number_score(query,
                                           precedent_data["pallyebeonho"])),
          FieldOfClaim("date", 2,
              "seongoilja" \in DOMAIN precedent_data,
              MaxOverDates(detect_date(query), precedent_data["seongoilja"])),
          FieldOfClaim("court", 2,
              /\ "beobwonmyeong" \in DOMAIN precedent_data
              /\ detect_court(query) # None,
              match_court_score(query, precedent_data["beobwonmyeong"]))}

MatchedFieldsGot == pc = "returned" /\ fn = "get_matched_fields"

\* the label get_matched_fields gives to a key of a record
LabelOfKey(key) ==
    IF key = "seongoilja_jonggyeoril" THEN "seongoilja" ELSE key

\* a record completed with the keys of its source that it lacks, each
\* holding the empty string, which every field scorer scores 0
Completed(precedent_data, source) ==
    [k \in DOMAIN precedent_data \cup SourceFields(source) |->
        IF k \in DOMAIN precedent_data THEN precedent_data[k] ELSE <<>>]

MissingFields == SourceFields(arg.source) \ DOMAIN arg.precedent_data

\* C17: for a record that lacks fields of its source, both functions
\* return; a missing field is not among the matched fields, and the score
\* and the matched fields are those of the record in which the missing
\* fields are present and score 0
C17_MissingFieldsScoreZero ==
    /\ Calculated =>
          /\ ret \in 0..(100 * Scale)
          /\ ret = calculate_precedent_score(
                       arg.query, Completed(arg.precedent_data, arg.source),
                       arg.source)
    /\ MatchedFieldsGot =>
          /\ \A key \in MissingFields : LabelOfKey(key) \notin DOMAIN ret
          /\ ret = get_matched_fields(
                       arg.query, Completed(arg.precedent_data, arg.source),
                       arg.source)

\* C17 witness: a KCS record without its case number, scored on its date
\* and its customs office
C17_Witness ==
    /\ Calculated
    /\ arg.source = "kcs"
    /\ arg.query = QueryKcsThree
    /\ MissingFields = {"sageonbeonho"}
    /\ Len(Contributing) = 2
    /\ ret > 0

\* the fields at the positions of S, in insertion order
FieldsAt(fields, S) ==
    SelectSeq(fields, LAMBDA f : \E k \in S : fields[k] = f)

\* the weighted mean of a sequence of contributing fields in units of
\* 1/Scale point, 0 for none
BaseOf(fields) ==
    LET base(t) == IF t.total_weight > 0
                   THEN (t.total_weighted_score * Scale) \div t.total_weight
                   ELSE 0
    IN  base(Totals(fields))

\* the aggregate score of the fields at S is not above the aggregate score
\* of the fields at S and k
NotLowerWith(fields, S, k) ==
    FinalScore(FieldsAt(fields, S \cup {k})) >= FinalScore(FieldsAt(fields, S))

\* C29 as claimed: for every set of contributing fields of the record and
\* every further contributing field, the aggregate score with the further
\* field is at least the aggregate score without it
C29_Claimed_MoreFieldsNeverLower ==
    Calculated =>
        LET never_lower(fields) ==
                \A S \in SUBSET (1..Len(fields)) :
                    \A k \in (1..Len(fields)) \ S : NotLowerWith(fields, S, k)
        IN  never_lower(Contributing)

\* C29: a further contributing field whose score is at least the weighted
\* mean of the fields of the set does not lower the aggregate score
C29_NotLowerWhenAtLeastMean ==
    Calculated =>
        LET not_lower(fields) ==
                \A S \in SUBSET (1..Len(fields)) :
                    \A k \in (1..Len(fields)) \ S :
                        fields[k].score * Scale >= BaseOf(FieldsAt(fields, S))
                        => NotLowerWith(fields, S, k)
        IN  not_lower(Contributing)

\* C29 witness: the case number alone scores more than the case number
\* with a date of lower score, and no less than with the customs office
\* whose score is the same
C29_Witness ==
    LET reached(fields) ==
            /\ Len(fields) = 3
            /\ fields[1].name = "case_number"
            /\ fields[2].name = "date"
            /\ fields[2].score < fields[1].score
            /\ fields[3].score >= fields[1].score
            /\ ~NotLowerWith(fields, {1}, 2)
            /\ NotLowerWith(fields, {1}, 3)
    IN  Calculated /\ reached(Contributing)

-----------------------------------------------------------------------------
(* Properties of match_case_number_score, checked under SpecCase.          *)

CaseMatched == pc = "returned" /\ fn = "match_case_number_score"

\* C9: a string in which detect_case_number finds a case number scores 100
\* against itself
C9_SelfMatchIs100 ==
    CaseMatched /\ arg.query = arg.target
                /\ detect_case_number(arg.query) # None
        => ret = 100

\* C9 witness: a string with text after the case number, scored against
\* itself
C9_Witness ==
    /\ CaseMatched
    /\ arg.query = arg.target
    /\ detect_case_number(arg.query) # None
    /\ detect_case_number(arg.query).full # arg.query
    /\ ret = 100

\* C10: when both sides yield a case number with the same year, type and
\* serial but different detected full strings, the score is 90 if the court
\* of the query is non-empty and 85 if it is empty, whatever the court of
\* the target
C10_SameCoreByQueryCourt ==
    CaseMatched =>
        LET query_info == detect_case_number(arg.query)
            target_info == detect_case_number(arg.target)
        IN  /\ query_info # None
            /\ target_info # None
            /\ query_info.full # target_info.full
            /\ query_info.year = target_info.year
            /\ query_info.type = target_info.type
            /\ query_info.number = target_info.number
            => ret = IF query_info.court # <<>> THEN 90 ELSE 85

\* C10 witness: the query has a court, the target has none, the cores are
\* equal, and the score is 90
C10_Witness ==
    /\ CaseMatched
    /\ detect_case_number(arg.query) # None
    /\ detect_case_number(arg.target) # None
    /\ detect_case_number(arg.query).court # <<>>
    /\ detect_case_number(arg.target).court = <<>>
    /\ detect_case_number(arg.query).number
           = detect_case_number(arg.target).number
    /\ detect_case_number(arg.query).year = detect_case_number(arg.target).year
    /\ detect_case_number(arg.query).type = detect_case_number(arg.target).type
    /\ ret = 90

-----------------------------------------------------------------------------
(* Properties of match_precedent_number_score, checked under               *)
(* SpecPrecedent.                                                          *)

PrecedentMatched == pc = "returned" /\ fn = "match_precedent_number_score"

\* the year and the case-type token of a case id  \d{4}[가-힣]+\d+
YearOfCaseId(case_id) == SubSeq(case_id, 1, 4)

TypeOfCaseId(case_id) == SelectSeq(case_id, LAMBDA c : c \in Hangul)

\* C11: match_precedent_number_score returns 0 if either side yields no
\* precedent number; otherwise 100 if the normalized query and target are
\* equal; otherwise 90 if the detected case ids are equal; otherwise 60 if
\* the year and the case-type token of the two case ids are equal;
\* otherwise 0
C11_PrecedentNumberTiers ==
    PrecedentMatched =>
        LET query_info == detect_precedent_number(arg.query)
            target_info == detect_precedent_number(arg.target)
        IN  ret = IF query_info = None \/ target_info = None THEN 0
                  ELSE IF normalize_text(arg.query) = normalize_text(arg.target)
                  THEN 100
                  ELSE IF query_info.case_id = target_info.case_id THEN 90
                  ELSE IF /\ YearOfCaseId(query_info.case_id)
                                = YearOfCaseId(target_info.case_id)
                          /\ TypeOfCaseId(query_info.case_id)
                                = TypeOfCaseId(target_info.case_id)
                  THEN 60
                  ELSE 0

\* C11 witness: a bare case id scored 90 against the bracketed citation
\* that contains it
C11_Witness ==
    /\ PrecedentMatched
    /\ arg.query = QueryBareCaseId
    /\ arg.target = Precedent2023Do1907
    /\ detect_precedent_number(arg.target).court # <<>>
    /\ ret = 90

-----------------------------------------------------------------------------
(* Properties of detect_date, checked under SpecDate.                      *)

DateDetected == pc = "returned" /\ fn = "detect_date"

\* the days of a month of the Gregorian calendar
DaysInMonth(year, month) ==
    CASE month \in {1, 3, 5, 7, 8, 10, 12} -> 31
      [] month \in {4, 6, 9, 11} -> 30
      [] month = 2 ->
            IF year % 400 = 0 \/ (year % 4 = 0 /\ year % 100 # 0) THEN 29
            ELSE 28
      [] OTHER -> 0

ValidDate(year, month, day) ==
    year \in 1..9999 /\ month \in 1..12 /\ day \in 1..DaysInMonth(year, month)

\* YYYY-MM-DD with leading zeros
IsoDate(year, month, day) ==
    Decimal4(year) \o <<"-">> \o Decimal2(month) \o <<"-">> \o Decimal2(day)

\* C12: each of the five surface forms of a valid calendar date, given
\* alone as the query, makes detect_date return the one-element list that
\* holds the zero-padded YYYY-MM-DD form of the date
C12_EveryFormYieldsTheDate ==
    DateDetected /\ Len(arg.query) >= 4 =>
        \A year \in {y \in DateYears : Decimal4(y) = SubSeq(arg.query, 1, 4)} :
            \A month \in DateMonths, day \in DateDays :
                ValidDate(year, month, day) =>
                    \A form \in DateForms, padded \in BOOLEAN :
                        arg.query = Rendering(year, month, day, form, padded)
                        => ret = <<IsoDate(year, month, day)>>

\* C12 witness: 29 February of a leap year written with the unit words and
\* without leading zeros
C12_Witness ==
    /\ DateDetected
    /\ arg.query = Rendering(2024, 2, 29, "korean", FALSE)
    /\ ret = <<IsoDate(2024, 2, 29)>>

\* a string is YYYY-MM-DD with leading zeros, and the date it writes is a
\* date of the calendar
IsValidIsoDate(date) ==
    /\ Len(date) = 10
    /\ \A k \in {1, 2, 3, 4, 6, 7, 9, 10} : date[k] \in Digit
    /\ date[5] = "-"
    /\ date[8] = "-"
    /\ ValidDate(int(SubSeq(date, 1, 4)), int(SubSeq(date, 6, 7)),
                 int(SubSeq(date, 9, 10)))

\* C13: every element of the list detect_date returns is a date of the
\* calendar written as zero-padded YYYY-MM-DD, and no element occurs twice;
\* a candidate with an impossible month or day is not reported
C13_OnlyValidDatesOnce ==
    DateDetected =>
        /\ \A k \in 1..Len(ret) : IsValidIsoDate(ret[k])
        /\ \A j, k \in 1..Len(ret) : ret[j] = ret[k] => j = k
        /\ \A year \in DateYears, month \in DateMonths, day \in DateDays :
              ~ValidDate(year, month, day) =>
                  \A k \in 1..Len(ret) : ret[k] # IsoDate(year, month, day)

\* C13 witness: the text holds an impossible date (month 13, day 32) and
\* a date, and only the date is reported
C13_Witness ==
    /\ DateDetected
    /\ arg.query = DateInvalidThenValid
    /\ ret = <<IsoDate(2024, 12, 19)>>

-----------------------------------------------------------------------------
(* Properties of match_date_score, checked under SpecDate.                 *)

DateMatched == pc = "returned" /\ fn = "match_date_score"

\* the positions of a separator in a date string
SeparatorsOf(date, sep) == {i \in 1..Len(date) : date[i] = sep}

\* the year part: the text before the first separator
YearPart(date, sep) ==
    IF SeparatorsOf(date, sep) = {} THEN date
    ELSE SubSeq(date, 1, SetMin(SeparatorsOf(date, sep)) - 1)

\* a date carries a month part when it has a separator; the month part is
\* the text between the first separator and the second one or the end
HasMonthPart(date, sep) == SeparatorsOf(date, sep) # {}

MonthPart(date, sep) ==
    LET first == SetMin(SeparatorsOf(date, sep))
        rest == SeparatorsOf(date, sep) \ {first}
    IN  SubSeq(date, first + 1,
               IF rest = {} THEN Len(date) ELSE SetMin(rest) - 1)

ZeroPadded(part) ==
    IF Len(part) >= 2 THEN part
    ELSE [k \in 1..(2 - Len(part)) |-> "0"] \o part

\* the separator of the target: a hyphen, or a dot when it has no hyphen
TargetSeparator(date) == IF SeparatorsOf(date, "-") # {} THEN "-" ELSE "."

\* C14: match_date_score returns 0 when either argument is empty; 100 when
\* the two strings are equal after normalization; otherwise 70 when the
\* year parts are equal and both sides carry a month part whose zero-padded
\* values are equal; otherwise 40 when the year parts are equal; otherwise
\* 0.  The query is split at hyphens, the target at hyphens or, when it has
\* none, at dots
C14_DateTiers ==
    DateMatched =>
        LET q == arg.query_date
            t == arg.target_date
            sep == TargetSeparator(arg.target_date)
        IN  ret = IF q = <<>> \/ t = <<>> THEN 0
                  ELSE IF normalize_text(q) = normalize_text(t) THEN 100
                  ELSE IF YearPart(q, "-") # YearPart(t, sep) THEN 0
                  ELSE IF /\ HasMonthPart(q, "-")
                          /\ HasMonthPart(t, sep)
                          /\ ZeroPadded(MonthPart(q, "-"))
                                = ZeroPadded(MonthPart(t, sep))
                  THEN 70
                  ELSE 40

\* C14 witness: a hyphenated query and a dotted target of the same month
\* and different days score 70
C14_Witness ==
    /\ DateMatched
    /\ arg.query_date = Date20241220
    /\ arg.target_date = DateDotted
    /\ ret = 70

-----------------------------------------------------------------------------
(* Properties of match_court_score and match_customs_score, checked under  *)
(* SpecAlias.                                                              *)

AliasMatched ==
    pc = "returned" /\ fn \in {"match_court_score", "match_customs_score"}

\* the detector of the scorer that was called
DetectorOfCall(query) ==
    IF fn = "match_court_score" THEN detect_court(query)
    ELSE detect_customs(query)

\* the score the specification gives when both sides are detected
DetectedTier(query_info, target_info) ==
    IF query_info.normalized_name = target_info.normalized_name
    THEN (IF query_info.is_alias \/ target_info.is_alias THEN 95 ELSE 100)
    ELSE IF \/ Contains(query_info.normalized_name,
                        target_info.normalized_name)
            \/ Contains(target_info.normalized_name,
                        query_info.normalized_name)
    THEN 70
    ELSE 0

\* C15 as claimed: when the detector of the scorer detects both arguments,
\* the score is 100 if the canonical names are equal and neither side is
\* flagged alias, 95 if they are equal and a side is flagged alias, 70 if
\* they differ and one contains the other, else 0
C15_Claimed_DetectedTiers ==
    AliasMatched =>
        LET query_info == DetectorOfCall(arg.query)
            target_info == DetectorOfCall(arg.target)
        IN  query_info # None /\ target_info # None
            => ret = DetectedTier(query_info, target_info)

\* C15 holds for the calls whose arguments are both non-empty
C15_NonEmptyArguments ==
    AliasMatched /\ arg.query # <<>> /\ arg.target # <<>> =>
        LET query_info == DetectorOfCall(arg.query)
            target_info == DetectorOfCall(arg.target)
        IN  query_info # None /\ target_info # None
            => ret = DetectedTier(query_info, target_info)

\* the state that refutes C15: the query is the empty string, in which
\* detect_court detects the first court of the table; the target is that
\* court; the score is 0 and not 95
C15_Refuted ==
    /\ AliasMatched
    /\ fn = "match_court_score"
    /\ arg.query = <<>>
    /\ arg.target = QueryCourt
    /\ detect_court(arg.query) # None
    /\ detect_court(arg.query).normalized_name
           = detect_court(arg.target).normalized_name
    /\ ret = 0

-----------------------------------------------------------------------------
(* Properties of the detectors and field scorers on strings without an     *)
(* entity, checked under SpecFields.                                       *)

Detectors ==
    {"detect_case_number", "detect_precedent_number", "detect_date",
     "detect_court", "detect_customs"}

FieldScorers ==
    {"match_case_number_score", "match_precedent_number_score",
     "match_date_score", "match_court_score", "match_customs_score"}

\* the string arguments of the call
ArgumentsOfCall == {arg[k] : k \in DOMAIN arg}

\* a string without digits; the empty string and the strings of
\* punctuation only are among them
WithoutDigits(s) == \A i \in 1..Len(s) : s[i] \notin Digit

\* the value a detector returns when it detects nothing
AbsenceValue == IF fn = "detect_date" THEN <<>> ELSE None

\* a value of the result type of the function that was called
IsResultValue(value) ==
    CASE fn = "detect_case_number" ->
            value = None
            \/ DOMAIN value = {"court", "year", "type", "number", "full"}
      [] fn = "detect_precedent_number" ->
            value = None
            \/ DOMAIN value = {"court", "date", "case_id", "full"}
      [] fn = "detect_date" -> value \in Seq(Seq(Digit \cup {"-"}))
      [] fn \in {"detect_court", "detect_customs"} ->
            value = None
            \/ DOMAIN value = {"input", "normalized_name", "is_alias"}
      [] fn \in FieldScorers -> value \in 0..100

\* C16 as claimed: on the empty string every detector returns its absence
\* value (none, or the empty list for the date detector), and every
\* detector and field scorer returns a value on the empty string, on a
\* string without digits and on a string of punctuation only
C16_Claimed_AbsenceOnEmptyString ==
    pc = "returned" /\ fn \in Detectors \cup FieldScorers =>
        /\ fn \in Detectors /\ arg.query = <<>> => ret = AbsenceValue
        /\ (\E s \in ArgumentsOfCall : WithoutDigits(s)) => IsResultValue(ret)

\* C16 holds for the detectors of case numbers, precedent numbers and
\* dates, and the second half of it for all functions
C16_ExceptAliasDetectors ==
    pc = "returned" /\ fn \in Detectors \cup FieldScorers =>
        /\ /\ fn \in Detectors \ {"detect_court", "detect_customs"}
           /\ arg.query = <<>>
           => ret = AbsenceValue
        /\ (\E s \in ArgumentsOfCall : WithoutDigits(s)) => IsResultValue(ret)

\* the state that refutes C16: detect_court has returned the first court of
\* the table, flagged alias, for the empty string
C16_Refuted ==
    /\ pc = "returned"
    /\ fn = "detect_court"
    /\ arg.query = <<>>
    /\ ret # None
    /\ ret.normalized_name = QueryCourt
    /\ ret.is_alias

-----------------------------------------------------------------------------
(* Properties of repeated searches, checked under SpecSession.             *)

\* the collection a result of a recorded call was scanned from
CollectionOfCall(call, source) ==
    IF source = "kcs" THEN call.arg.data_kcs ELSE call.arg.data_moleg

-----------------------------------------------------------------------------
(* Properties of a shared-out scan, checked under SpecParallel.            *)

ParallelDone == pc = "returned" /\ fn = "parallel_search"

\* the results that reach min_score, in scan order
QualifyingInScanOrder ==
    Scan(arg.query, arg.data_kcs, "kcs", arg.min_score, 1)
    \o Scan(arg.query, arg.data_moleg, "moleg", arg.min_score, 1)

\* what search_precedent returns for the arguments of the shared-out search
Sequential ==
    search_precedent(arg.query, arg.data_kcs, arg.data_moleg, arg.top_k,
                     arg.min_score)

SameScores(got, expected) ==
    /\ Len(got) = Len(expected)
    /\ \A k \in 1..Len(got) : got[k].score = expected[k].score

DistinctResultsOf(got, all) ==
    /\ \A k \in 1..Len(got) : \E n \in 1..Len(all) : got[k] = all[n]
    /\ \A k, n \in 1..Len(got) :
          got[k].source = got[n].source /\ got[k].index = got[n].index
          => k = n

NoTies(all) ==
    \A k, n \in 1..Len(all) : all[k].score = all[n].score => k = n

\* C19 as claimed: the shared-out search returns exactly the list of the
\* sequential search, equal-score results in the same order
C19_Claimed_ExactlySequential == ParallelDone => ret = Sequential

\* C19: the shared-out search returns as many results as the sequential
\* search with the same score at every position, each a different record
\* that reaches min_score; it is the list of the sequential search when the
\* partial lists were merged in scan order or no two results that reach
\* min_score have equal scores
C19_SameScoresTiesInMergeOrder ==
    ParallelDone =>
        /\ SameScores(ret, Sequential)
        /\ DistinctResultsOf(ret, QualifyingInScanOrder)
        /\ (workers.merged = QualifyingInScanOrder \/ NoTies(QualifyingInScanOrder))
           => ret = Sequential

\* C19 witness: two results of equal score were merged against the scan
\* order, and the shared-out search returns another record than the
\* sequential search does
C19_Witness ==
    /\ ParallelDone
    /\ arg.top_k = 1
    /\ Len(ret) = 1
    /\ ret # Sequential
    /\ ret[1].score = Sequential[1].score
    /\ ret[1].score >= DefaultMinScore * Scale
    /\ workers.merged # QualifyingInScanOrder

-----------------------------------------------------------------------------
(* More properties of match_case_number_score, checked under SpecCase.     *)

\* year + type + serial of a detected case number
CoreOfCase(info) == info.year \o info.type \o info.number

\* C20: match_case_number_score returns 0 when either argument yields no
\* case number; when both do and the cores differ it returns 70 if one
\* core is a substring of the other, else 50 if the serials are equal,
\* else 0
C20_UnequalCoreTiers ==
    CaseMatched =>
        LET query_info == detect_case_number(arg.query)
            target_info == detect_case_number(arg.target)
        IN  IF query_info = None \/ target_info = None THEN ret = 0
            ELSE CoreOfCase(query_info) # CoreOfCase(target_info)
                 => ret = IF \/ Contains(CoreOfCase(query_info),
                                         CoreOfCase(target_info))
                             \/ Contains(CoreOfCase(target_info),
                                         CoreOfCase(query_info))
                          THEN 70
                          ELSE IF query_info.number = target_info.number
                          THEN 50
                          ELSE 0

\* C20 witness: the core of the target is a proper part of the core of
\* the query, the serials differ, and the score is 70
C20_Witness ==
    /\ CaseMatched
    /\ detect_case_number(arg.query) # None
    /\ detect_case_number(arg.target) # None
    /\ CoreOfCase(detect_case_number(arg.query))
           # CoreOfCase(detect_case_number(arg.target))
    /\ Contains(CoreOfCase(detect_case_number(arg.target)),
                CoreOfCase(detect_case_number(arg.query)))
    /\ detect_case_number(arg.query).number
           # detect_case_number(arg.target).number
    /\ ret = 70

-----------------------------------------------------------------------------
(* More properties of match_precedent_number_score, checked under          *)
(* SpecPrecedent.                                                          *)

\* both arguments are citations of the same court for the same case id
SameCourtAndCaseId(query_info, target_info) ==
    /\ query_info # None
    /\ target_info # None
    /\ query_info.court # <<>>
    /\ query_info.court = target_info.court
    /\ query_info.case_id = target_info.case_id

\* C21: match_precedent_number_score returns 0, 60, 90 or 100 and never
\* 85: two citations of the same court for the same case id score 90, or
\* 100 when their normalized texts are equal
C21_Never85 ==
    PrecedentMatched =>
        /\ ret \in {0, 60, 90, 100}
        /\ SameCourtAndCaseId(detect_precedent_number(arg.query),
                              detect_precedent_number(arg.target))
           => ret = IF normalize_text(arg.query) = normalize_text(arg.target)
                    THEN 100 ELSE 90

\* C21 witness: two citations of the same court for the same case id with
\* different dates score 90
C21_Witness ==
    /\ PrecedentMatched
    /\ arg.query = PrecedentOtherDate
    /\ arg.target = Precedent2023Do1907
    /\ SameCourtAndCaseId(detect_precedent_number(arg.query),
                          detect_precedent_number(arg.target))
    /\ ret = 90

-----------------------------------------------------------------------------
(* More properties of detect_date, checked under SpecDate.                 *)

\* the positions of the query where a pattern matches a candidate that
\* normalizes to the date
AppearancesOf(query, date) ==
    {i \in 1..Len(query) :
        \E p \in 1..Len(DATE_PATTERNS) :
            LET found(match) ==
                    /\ match # None
                    /\ normalize_date_match(match, DATE_PATTERNS[p]) = date
            IN  found(DateAt(query, i, DATE_PATTERNS[p]))}

FirstAppearance(query, date) ==
    IF AppearancesOf(query, date) = {} THEN 0
    ELSE SetMin(AppearancesOf(query, date))

InOrderOfAppearance(query, dates) ==
    \A j, k \in 1..Len(dates) :
        j < k => FirstAppearance(query, dates[j])
                     <= FirstAppearance(query, dates[k])

\* the patterns of DATE_PATTERNS that match somewhere in the query
PatternsFound(query) ==
    {p \in 1..Len(DATE_PATTERNS) : finditer(query, 1, DATE_PATTERNS[p]) # <<>>}

\* C22 as claimed: detect_date lists the dates in the order of their first
\* appearance in the query, also when they are written in different formats
C22_Claimed_OrderOfAppearance ==
    DateDetected => InOrderOfAppearance(arg.query, ret)

\* the part of C22 that holds: the dates are in the order of their first
\* appearance when one pattern only matches in the query
C22_OneFormatInOrder ==
    DateDetected /\ Cardinality(PatternsFound(arg.query)) <= 1
        => InOrderOfAppearance(arg.query, ret)

\* C22 refuted: a dotted date before a hyphenated date is listed after it
C22_Refuted ==
    /\ DateDetected
    /\ arg.query = DateDottedThenHyphen
    /\ ret = <<IsoDate(2024, 12, 20), IsoDate(2024, 12, 19)>>
    /\ FirstAppearance(arg.query, ret[2]) < FirstAppearance(arg.query, ret[1])

-----------------------------------------------------------------------------
(* Properties of detect_court and detect_customs, checked under SpecAlias. *)

AliasDetected == pc = "returned" /\ fn \in {"detect_court", "detect_customs"}

\* the table of the detector that was called, as (name, alias) pairs in
\* iteration order
PairsOfCall == IF fn = "detect_court" THEN COURT_PAIRS ELSE CUSTOMS_PAIRS

\* the alias of pair k is a substring of the query
AliasInQuery(k) == Contains(PairsOfCall[k].alias, arg.query)

\* the alias of pair k and the query are in a containment relation
AliasRelated(k) ==
    AliasInQuery(k) \/ Contains(arg.query, PairsOfCall[k].alias)

-----------------------------------------------------------------------------
(* More properties of match_court_score and match_customs_score, checked   *)
(* under SpecAlias.                                                        *)

\* the table of the scorer that was called
PairsOfScorer ==
    IF fn = "match_court_score" THEN COURT_PAIRS ELSE CUSTOMS_PAIRS

\* the string is resolved by the loose pass of the detector only: no alias
\* is a substring of it, and the detector reports a name
LooselyResolved(s) ==
    /\ DetectorOfCall(s) # None
    /\ \A k \in 1..Len(PairsOfScorer) : ~Contains(PairsOfScorer[k].alias, s)

\* C24 as claimed: when the query is resolved by the loose pass only, the
\* score is below 100 for every target
C24_Claimed_LooseBelow100 ==
    AliasMatched /\ LooselyResolved(arg.query) => ret < 100

\* the part of C24 that holds: when the query is resolved by the loose
\* pass only and the target is detected, the score is at most 95
C24_LooseAgainstDetectedTarget ==
    AliasMatched /\ LooselyResolved(arg.query)
                 /\ DetectorOfCall(arg.target) # None
        => ret <= 95

\* C24 refuted: 서울 is resolved by the loose pass, the target 서울. is not
\* detected, and the normalized texts are equal: the score is 100
C24_Refuted ==
    /\ AliasMatched
    /\ fn = "match_court_score"
    /\ arg.query = CourtSeoul
    /\ arg.target = CourtSeoulDotted
    /\ LooselyResolved(arg.query)
    /\ DetectorOfCall(arg.target) = None
    /\ ret = 100

\* an argument of the call is not detected against the alias table, and
\* neither argument is empty
FallbackTaken ==
    /\ AliasMatched
    /\ arg.query # <<>>
    /\ arg.target # <<>>
    /\ DetectorOfCall(arg.query) = None \/ DetectorOfCall(arg.target) = None

\* C25 as claimed: the score is 0 when either argument is empty; when an
\* argument is not detected it is 100 if the normalized texts are equal,
\* 70 if they differ and one of them contains the other, and 0 otherwise
C25_Claimed_FallbackEitherDirection ==
    /\ AliasMatched /\ (arg.query = <<>> \/ arg.target = <<>>) => ret = 0
    /\ FallbackTaken =>
          ret = IF normalize_text(arg.query) = normalize_text(arg.target)
                THEN 100
                ELSE IF \/ Contains(normalize_text(arg.query),
                                    normalize_text(arg.target))
                        \/ Contains(normalize_text(arg.target),
                                    normalize_text(arg.query))
                THEN 70
                ELSE 0

\* the part of C25 that holds: 70 is given when the normalized query is a
\* part of the normalized target, and not the other way round
C25_FallbackQueryInTarget ==
    /\ AliasMatched /\ (arg.query = <<>> \/ arg.target = <<>>) => ret = 0
    /\ FallbackTaken =>
          ret = IF normalize_text(arg.query) = normalize_text(arg.target)
                THEN 100
                ELSE IF Contains(normalize_text(arg.query),
                                 normalize_text(arg.target))
                THEN 70
                ELSE 0

\* C25 refuted: the target 판결 is not detected and its normalized text is
\* a part of the normalized query 대법원 판결; the score is 0
C25_Refuted ==
    /\ FallbackTaken
    /\ arg.query = CourtInText
    /\ arg.target = CourtWordRuling
    /\ DetectorOfCall(arg.target) = None
    /\ Contains(normalize_text(arg.target), normalize_text(arg.query))
    /\ ret = 0

-----------------------------------------------------------------------------
(* Properties of the field scorers on queries of punctuation, checked      *)
(* under SpecFields.                                                       *)

FieldScored == pc = "returned" /\ fn \in FieldScorers

\* the query argument of the field scorer that was called
QueryOfCall == IF fn = "match_date_score" THEN arg.query_date ELSE arg.query

\* the target argument of the field scorer that was called
TargetOfCall == IF fn = "match_date_score" THEN arg.target_date ELSE arg.target

\* a string without a letter, a digit or a Hangul character
NoWordCharacter(s) ==
    \A i \in 1..Len(s) : s[i] \notin Digit \cup Hangul \cup Latin

\* C26 as claimed: every field scorer returns 0 when its query holds no
\* letter, digit or Hangul character, for every target
C26_Claimed_PunctuationScoresZero ==
    FieldScored /\ NoWordCharacter(QueryOfCall) => ret = 0

\* the part of C26 that holds: the case-number and precedent-number
\* scorers return 0 for such a query, and every scorer returns 0 when the
\* query is empty
C26_IdentifierScorersZero ==
    FieldScored /\ NoWordCharacter(QueryOfCall) =>
        /\ fn \in {"match_case_number_score", "match_precedent_number_score"}
           => ret = 0
        /\ QueryOfCall = <<>> => ret = 0

\* C26 refuted: the court scorer gives 70 to the query - against 대법원
C26_Refuted ==
    /\ FieldScored
    /\ fn = "match_court_score"
    /\ arg.query = QueryPunctuation
    /\ NoWordCharacter(arg.query)
    /\ arg.target = QueryCourt
    /\ ret = 70

-----------------------------------------------------------------------------
(* Properties of the results of search_precedent, checked under Spec.      *)

\* the label get_matched_fields gives to a field of the score
LabelOfField(name) ==
    CASE name = "case_number" -> "sageonbeonho"
      [] name = "precedent_number" -> "pallyebeonho"
      [] name = "date" -> "seongoilja"
      [] name = "court" -> "beobwonmyeong"
      [] name = "customs" -> "cheobuncheong"

\* the weight of a labelled field, in tenths
WeightOfLabel(label) ==
    IF label \in {"sageonbeonho", "pallyebeonho"} THEN 6 ELSE 2

\* the fields of the claim with a score greater than 0, for every query,
\* record and source of the model
ContributingFields ==
    [query \in Queries, precedent \in SearchRecords, source \in Sources |->
        {f \in FieldsOfClaim(query, precedent, source) : f.score > 0}]

\* the aggregate formula applied to a map from labels to scores
AggregateOf(matched_fields) ==
    LET labels == DOMAIN matched_fields
        weighted == SumOf([l \in labels |->
                              matched_fields[l] * WeightOfLabel(l)], labels)
        weight == SumOf([l \in labels |-> WeightOfLabel(l)], labels)
        final_score == (weighted * Scale) \div weight
                           + BonusOf(Cardinality(labels)) * Scale
    IN  IF labels = {} THEN 0
        ELSE IF final_score < 100 * Scale THEN final_score
        ELSE 100 * Scale

\* C27: for every result of search_precedent, matched_fields has an entry
\* for exactly the fields that contribute to the score of its record, each
\* entry is the score of its field and lies in 1..100, the score of the
\* result is the aggregate formula applied to the entries with the weights
\* of the source, and the score is greater than 0 exactly when
\* matched_fields is not empty
C27_MatchedFieldsExplainScore ==
    Searched =>
        \A k \in 1..Len(ret) :
            /\ DOMAIN ret[k].matched_fields
                   = {LabelOfField(f.name) :
                         f \in ContributingFields[arg.query, ret[k].data,
                                                  ret[k].source]}
            /\ \A f \in ContributingFields[arg.query, ret[k].data,
                                           ret[k].source] :
                   /\ ret[k].matched_fields[LabelOfField(f.name)] = f.score
                   /\ f.weight = WeightOfLabel(LabelOfField(f.name))
                   /\ f.score \in 1..100
            /\ ret[k].score = AggregateOf(ret[k].matched_fields)
            /\ ret[k].score > 0 <=> DOMAIN ret[k].matched_fields # {}

\* C27 witness: a result with two matched fields of different scores, and
\* a result of the same search without a matched field
C27_Witness ==
    /\ Searched
    /\ \E k \in 1..Len(ret) :
          /\ Cardinality(DOMAIN ret[k].matched_fields) = 2
          /\ \E l, m \in DOMAIN ret[k].matched_fields :
                ret[k].matched_fields[l] # ret[k].matched_fields[m]
          /\ ret[k].score = AggregateOf(ret[k].matched_fields)
          /\ ret[k].score < 100 * Scale
    /\ \E k \in 1..Len(ret) :
          /\ DOMAIN ret[k].matched_fields = {}
          /\ ret[k].score = 0

\* the smallest score a field can contribute
MinFieldScore == 40

\* the smallest entry of a map from labels to scores, 100 for no entry
SmallestOf(matched_fields) ==
    SetMin({100} \cup {matched_fields[l] : l \in DOMAIN matched_fields})

\* C28: the aggregate score of every scanned record is 0 or lies between
\* 40 and 100 and is not below the smallest score of a contributing
\* field; a search with a min_score above 0 and up to 40 returns the list
\* it returns for every other min_score of that range
C28_ScoreZeroOrAtLeast40 ==
    Searched =>
        /\ \A k \in 1..Len(ret) :
              /\ \/ ret[k].score = 0
                 \/ ret[k].score \in (MinFieldScore * Scale)..(100 * Scale)
              /\ ret[k].score > 0 =>
                    ret[k].score >= SmallestOf(ret[k].matched_fields) * Scale
        /\ arg.min_score \in 1..(MinFieldScore * Scale) =>
              /\ ret = search_precedent(arg.query, arg.data_kcs,
                                        arg.data_moleg, arg.top_k, 1)
              /\ ret = search_precedent(arg.query, arg.data_kcs,
                                        arg.data_moleg, arg.top_k,
                                        MinFieldScore * Scale)

\* C28 witness: a search with min_score 30 returns a record of score
\* exactly 40, matched on the year of its date only
C28_Witness ==
    /\ Searched
    /\ arg.min_score = DefaultMinScore * Scale
    /\ \E k \in 1..Len(ret) :
          /\ ret[k].score = MinFieldScore * Scale
          /\ ret[k].matched_fields = [l \in {"seongoilja"} |-> MinFieldScore]
    /\ ret = search_precedent(arg.query, arg.data_kcs, arg.data_moleg,
                              arg.top_k, MinFieldScore * Scale)

-----------------------------------------------------------------------------
(* Properties of the alias tables, checked under SpecTables.               *)

\* the arguments of the call are a name of the table of the scorer and a
\* surface form listed for it, in either order
TableEntryScored ==
    /\ AliasMatched
    /\ \E k \in 1..Len(PairsOfScorer) :
          {arg.query, arg.target}
              = {PairsOfScorer[k].standard_name, PairsOfScorer[k].alias}

\* C30 as claimed: a name of COURT_ALIASES or CUSTOMS_ALIASES and a
\* surface form listed for it score at least 95, in either argument order
C30_Claimed_TablesConsistent == TableEntryScored => ret >= 95

\* the part of C30 that holds: every name and surface form listed for it
\* score at least 95, except 서울지법 and 서울중앙지방법원
C30_ExceptSeoulDistrict ==
    TableEntryScored
        /\ {arg.query, arg.target}
               # {CourtSeoulDistrictShort, CourtSeoulCentral}
        => ret >= 95

\* C30 refuted: 서울중앙지방법원 is listed for 서울지법 and the two score 0
C30_Refuted ==
    /\ TableEntryScored
    /\ fn = "match_court_score"
    /\ arg.query = CourtSeoulDistrictShort
    /\ arg.target = CourtSeoulCentral
    /\ detect_court(arg.query).normalized_name
           # detect_court(arg.target).normalized_name
    /\ ret = 0

=============================================================================
